---------------------------- MODULE Spec2Model ----------------------------
(***************************************************************************)
(* A model of eml_parser/eml_parser.py: the Received-header parser         *)
(* (parserouting and its helpers), the Received loop and the aggregate     *)
(* sets of parse_email, and the indicator scan of a body text.             *)
(*                                                                         *)
(* Strings are sequences of one-character strings.  Offsets are 0-based,   *)
(* as in Python: the character at offset i of s is s[i + 1].               *)
(***************************************************************************)
EXTENDS Integers, Sequences, FiniteSets, TLC

(***************************************************************************)
(* Characters and character classes.                                       *)
(***************************************************************************)
LowerSeq == <<"a","b","c","d","e","f","g","h","i","j","k","l","m",
              "n","o","p","q","r","s","t","u","v","w","x","y","z">>
UpperSeq == <<"A","B","C","D","E","F","G","H","I","J","K","L","M",
              "N","O","P","Q","R","S","T","U","V","W","X","Y","Z">>
Lower == {LowerSeq[k] : k \in 1..26}
Upper == {UpperSeq[k] : k \in 1..26}
Digit == {"0","1","2","3","4","5","6","7","8","9"}
Alnum == Lower \cup Upper \cup Digit
\* \s of the re module, on the characters the model uses
Space == {" ", "\t", "\n", "\r"}
\* \w of the re module, on the characters the model uses
Word == Alnum \cup {"_"}
Hex == Digit \cup {"a","b","c","d","e","f","A","B","C","D","E","F"}

\* str.lower() of one character
LowerChar(c) ==
  IF c \in Upper THEN LowerSeq[CHOOSE k \in 1..26 : UpperSeq[k] = c] ELSE c

Min(S) == CHOOSE i \in S : \A j \in S : i <= j
Max(S) == CHOOSE i \in S : \A j \in S : j <= i

\* a function on 1..n as the tuple of its values
Tup(f) == f \o <<>>

\* str.lower()
StrLower(s) == Tup([k \in 1..Len(s) |-> LowerChar(s[k])])

(***************************************************************************)
(* Python string primitives.                                               *)
(***************************************************************************)
\* s[a:b] for 0 <= a, b (b is cut to the length, an empty slice if a >= b)
Sub(s, a, b) ==
  LET e == IF b > Len(s) THEN Len(s) ELSE b
  IN  IF a >= e THEN <<>> ELSE SubSeq(s, a + 1, e)

\* whether pat occurs in s at offset i
At(s, pat, i) ==
  /\ i >= 0
  /\ i + Len(pat) <= Len(s)
  /\ \A k \in 1..Len(pat) : s[i + k] = pat[k]

\* s.find(pat, start): the first offset >= start where pat occurs, or -1
FindFrom(s, pat, start) ==
  LET hits == {i \in start..(Len(s) - Len(pat)) : At(s, pat, i)}
  IN  IF hits = {} THEN -1 ELSE Min(hits)

\* s.find(pat)
Find(s, pat) == FindFrom(s, pat, 0)

\* pat in s
Contains(s, pat) == Find(s, pat) # -1

\* s.lstrip(chars)
LStrip(s, chars) ==
  LET keep == {k \in 1..Len(s) : s[k] \notin chars}
  IN  IF keep = {} THEN <<>> ELSE SubSeq(s, Min(keep), Len(s))

\* s.rstrip(chars)
RStrip(s, chars) ==
  LET keep == {k \in 1..Len(s) : s[k] \notin chars}
  IN  IF keep = {} THEN <<>> ELSE SubSeq(s, 1, Max(keep))

\* s.strip(chars)
Strip(s, chars) == RStrip(LStrip(s, chars), chars)

RECURSIVE ReplaceFrom(_, _, _, _)
ReplaceFrom(s, old, new, pos) ==
  LET i == FindFrom(s, old, pos)
  IN  IF i = -1 THEN Sub(s, pos, Len(s))
      ELSE Sub(s, pos, i) \o new \o ReplaceFrom(s, old, new, i + Len(old))

\* s.replace(old, new) with new = "" when old = "" (the only use of an
\* empty old string in the source), which leaves s as it is
Replace(s, old, new) ==
  IF old = <<>> THEN s ELSE ReplaceFrom(s, old, new, 0)

RECURSIVE SplitFrom(_, _, _, _)
SplitFrom(s, sep, pos, start) ==
  LET i == FindFrom(s, sep, pos)
  IN  IF i = -1 THEN <<Sub(s, start, Len(s))>>
      ELSE <<Sub(s, start, i)>> \o SplitFrom(s, sep, i + Len(sep), i + Len(sep))

\* re.split(sep, s) and s.split(sep) for a literal, non-empty sep
Split(s, sep) == SplitFrom(s, sep, 0, 0)

RECURSIVE Join(_, _)
\* sep.join(parts)
Join(sep, parts) ==
  IF parts = <<>> THEN <<>>
  ELSE IF Len(parts) = 1 THEN parts[1]
  ELSE parts[1] \o sep \o Join(sep, Tail(parts))

RECURSIVE Concat(_)
\* "".join(parts)
Concat(parts) ==
  IF parts = <<>> THEN <<>> ELSE Head(parts) \o Concat(Tail(parts))

\* the elements of a list, as list(set(q)) keeps them (order is not kept)
ToSet(q) == {q[k] : k \in 1..Len(q)}

(***************************************************************************)
(* Python dicts: functions on the set of their keys.                       *)
(***************************************************************************)
EmptyDict == [k \in {} |-> 0]
Has(d, k) == k \in DOMAIN d
Put(d, k, v) == [x \in DOMAIN d \cup {k} |-> IF x = k THEN v ELSE d[x]]
Del(d, k) == [x \in DOMAIN d \ {k} |-> d[x]]

(***************************************************************************)
(* Regular expressions of the re module.  A pattern is a record; Ends      *)
(* gives the offsets where a match starting at offset i can end, in the    *)
(* order the backtracking matcher tries them (alternatives left to right,  *)
(* greedy repetitions longest first), each offset once.  The first offset  *)
(* is the end of the match re reports.                                     *)
(***************************************************************************)
Cls(S) == [t |-> "cls", s |-> S]
\* [^...]
Ncls(S) == [t |-> "ncls", s |-> S]
Lit(q) == [t |-> "lit", q |-> q]
Cat(rs) == [t |-> "cat", rs |-> rs]
Alt(rs) == [t |-> "alt", rs |-> rs]
\* r{lo,hi}; hi = -1 stands for no upper limit
Rep(r, lo, hi) == [t |-> "rep", r |-> r, lo |-> lo, hi |-> hi]
Opt(r) == Rep(r, 0, 1)
Plus(r) == Rep(r, 1, -1)
Star(r) == Rep(r, 0, -1)
\* $ under re.MULTILINE
Eol == [t |-> "eol"]
\* $ without re.MULTILINE
Eos == [t |-> "eos"]

\* the place of the offset v of the list ls[k]: the list, then the place in it
RankIn(ls, v, k) == k * 10000 + Min({j \in 1..Len(ls[k]) : ls[k][j] = v})

\* the place of the first occurrence of the offset v in the lists of ls
RankOf(ls, v) == RankIn(ls, v, Min({x \in 1..Len(ls) : v \in ToSet(ls[x])}))

\* the offsets v with a place rank[v + 1] > 0, by place
ByRank(rank) ==
  SortSeq(SelectSeq(Tup([w \in 1..Len(rank) |-> w - 1]),
                    LAMBDA v : rank[v + 1] > 0),
          LAMBDA u, v : rank[u + 1] < rank[v + 1])

\* the offsets vals of the lists of ls, by first occurrence
MergeVals(ls, vals) ==
  ByRank(Tup([w \in 1..(Max(vals \cup {0}) + 1) |->
                IF w - 1 \in vals THEN RankOf(ls, w - 1) ELSE 0]))

\* the offsets of the lists of ls, each once, in the order of their first
\* occurrence (each list holds an offset at most once)
Merge(ls) ==
  IF Len(ls) = 1 THEN ls[1]
  ELSE MergeVals(ls, UNION {ToSet(ls[k]) : k \in 1..Len(ls)})

\* whether the character at offset i of s is one r matches (r a class)
InClass(r, s, i) ==
  /\ i < Len(s)
  /\ IF r.t = "cls" THEN s[i + 1] \in r.s ELSE s[i + 1] \notin r.s

\* the ends of a run of m characters of which lo at least are taken, from
\* the longest down to the shortest
RunEnds(lo, m, i) ==
  IF m < lo THEN <<>> ELSE Tup([j \in 1..(m - lo + 1) |-> i + m - (j - 1)])

\* the run of n characters cut to hi, -1 for no limit
RunLen(hi, n) == IF hi # -1 /\ hi < n THEN hi ELSE n

\* a repeated class: the run of characters of the class at offset i
EndsRun(r, lo, hi, s, i) ==
  RunEnds(lo, RunLen(hi, Min({k \in 0..(Len(s) - i) : ~InClass(r, s, i + k)})), i)

RECURSIVE Ends(_, _, _), EndsCat(_, _, _, _), EndsRep(_, _, _, _, _)
RECURSIVE EndsCatOf(_, _, _, _), EndsRepOf(_, _, _, _, _, _)

Ends(r, s, i) ==
  CASE r.t \in {"cls", "ncls"} -> IF InClass(r, s, i) THEN <<i + 1>> ELSE <<>>
    [] r.t = "lit" -> IF At(s, r.q, i) THEN <<i + Len(r.q)>> ELSE <<>>
    [] r.t = "eol" -> IF i = Len(s) \/ (i < Len(s) /\ s[i + 1] = "\n")
                      THEN <<i>> ELSE <<>>
    [] r.t = "eos" -> IF i = Len(s) \/ (i = Len(s) - 1 /\ s[i + 1] = "\n")
                      THEN <<i>> ELSE <<>>
    [] r.t = "cat" -> EndsCat(r.rs, 1, s, i)
    [] r.t = "alt" -> Merge(Tup([k \in 1..Len(r.rs) |-> Ends(r.rs[k], s, i)]))
    [] r.t = "rep" -> IF r.r.t \in {"cls", "ncls"}
                      THEN EndsRun(r.r, r.lo, r.hi, s, i)
                      ELSE EndsRep(r.r, r.lo, r.hi, s, i)

\* the ends of rs[k..] at offset i
EndsCat(rs, k, s, i) ==
  IF k > Len(rs) THEN <<i>> ELSE EndsCatOf(rs, k, s, Ends(rs[k], s, i))

\* the ends of rs[k + 1..] behind each end es of rs[k]
EndsCatOf(rs, k, s, es) ==
  Merge(Tup([j \in 1..Len(es) |-> EndsCat(rs, k + 1, s, es[j])]))

\* the ends of r{lo,hi} at offset i: one more r first; an r that matches the
\* empty string ends the repetition
EndsRep(r, lo, hi, s, i) ==
  EndsRepOf(r, lo, hi, s, i, SelectSeq(Ends(r, s, i), LAMBDA e : e > i))

EndsRepOf(r, lo, hi, s, i, once) ==
  (IF hi = 0 \/ once = <<>> THEN <<>>
   ELSE Merge(Tup([j \in 1..Len(once) |->
                     EndsRep(r, IF lo > 0 THEN lo - 1 ELSE 0,
                             IF hi > 0 THEN hi - 1 ELSE hi, s, once[j])])))
  \o (IF lo = 0 THEN <<i>> ELSE <<>>)

\* the first of a list of offsets, or -1
First(es) == IF es = <<>> THEN -1 ELSE es[1]

\* the least of a set of offsets, or -1
Least(S) == IF S = {} THEN -1 ELSE Min(S)

\* the end of the match of r at offset i, or -1
MatchEnd(r, s, i) == First(Ends(r, s, i))

\* the end of the match of r at each offset p of s, at place p + 1
MatchEnds(r, s) == Tup([p \in 1..(Len(s) + 1) |-> MatchEnd(r, s, p - 1)])

\* the first offset from pos on where a non-empty match starts, or -1
NextMatch(ends, pos) == Least({p \in pos..(Len(ends) - 1) : ends[p + 1] > p})

RECURSIVE Spans(_, _), SpansAt(_, _)
\* the spans <<start, end>> of the non-overlapping matches from pos on,
\* left to right
Spans(ends, pos) == SpansAt(ends, NextMatch(ends, pos))

SpansAt(ends, p) ==
  IF p = -1 THEN <<>> ELSE <<<<p, ends[p + 1]>>>> \o Spans(ends, ends[p + 1])

\* the spans of the matches of r in s
Matches(r, s) == Spans(MatchEnds(r, s), 0)

\* the text of each span
Texts(s, sp) == Tup([k \in 1..Len(sp) |-> Sub(s, sp[k][1], sp[k][2])])

\* r.findall(s) for a pattern whose only group is the whole match and that
\* matches no empty string
FindAll(r, s) == Texts(s, Matches(r, s))

\* s with repl in the place of each span
Replaced(repl, s, sp) ==
  Concat(Tup([k \in 1..Len(sp) |->
                Sub(s, IF k = 1 THEN 0 ELSE sp[k - 1][2], sp[k][1]) \o repl]))
  \o Sub(s, IF sp = <<>> THEN 0 ELSE sp[Len(sp)][2], Len(s))

\* re.sub(r, repl, s) for a pattern that matches no empty string and a
\* replacement without group references
ReSub(r, repl, s) == Replaced(repl, s, Matches(r, s))

(***************************************************************************)
(* The compiled patterns of lines 68-89.                                   *)
(***************************************************************************)
\* [a-zA-Z0-9-]
Label == Alnum \cup {"-"}

\* the grave accent, which a TLA+ string cannot hold
Grave == "grave"

\* the class of the local part of email_regex, [a-zA-Z0-9.!#$%&'*+-/=?\^_ {|}~-]
\* with the grave accent after the underscore; "+-/" is the range + , - . /
EmailLocal ==
  Alnum \cup {".","!","#","$","%","&","'","*","+",",","-","/","=","?","^",
              "_",Grave,"{","|","}","~"}

email_regex ==
  Cat(<<Plus(Cls(EmailLocal)), Lit(<<"@">>), Plus(Cls(Label)),
        Star(Cat(<<Lit(<<".">>), Plus(Cls(Label))>>))>>)

\* [a-zA-Z0-9-]+(?:\.[a-zA-Z0-9-]{2,})+, the group of recv_dom_regex and
\* of dom_regex
DomainName ==
  Cat(<<Plus(Cls(Label)),
        Plus(Cat(<<Lit(<<".">>), Rep(Cls(Label), 2, -1)>>))>>)

\* (?:(?:from|by)\s+), the part of recv_dom_regex before its group
RecvDomPrefix ==
  Cat(<<Alt(<<Lit(<<"f","r","o","m">>), Lit(<<"b","y">>)>>), Plus(Cls(Space))>>)

recv_dom_regex == Cat(<<RecvDomPrefix, DomainName>>)

\* (?:\s|[\(\/<>|@'=]), the part of dom_regex before its group
DomLeft == Space \cup {"(", "/", "<", ">", "|", "@", "'", "="}

\* (?:$|\?|\s|#|&|[\/<>'\)]), the part of dom_regex after its group
DomRight ==
  Alt(<<Eol, Lit(<<"?">>), Cls(Space), Lit(<<"#">>), Lit(<<"&">>),
        Cls({"/", "<", ">", "'", ")"})>>)

\* (?:25[0-5]|2[0-4][0-9]|[01]?[0-9][0-9]?)
Octet ==
  Alt(<<Cat(<<Lit(<<"2","5">>), Cls({"0","1","2","3","4","5"})>>),
        Cat(<<Lit(<<"2">>), Cls({"0","1","2","3","4"}), Cls(Digit)>>),
        Cat(<<Opt(Cls({"0","1"})), Cls(Digit), Opt(Cls(Digit))>>)>>)

ipv4_regex == Cat(<<Rep(Cat(<<Octet, Lit(<<".">>)>>), 3, 3), Octet>>)

\* [0-9A-Fa-f]{1,4}
H16 == Rep(Cls(Hex), 1, 4)

\* (?:[0-9A-Fa-f]{1,4}:)
H16Colon == Cat(<<H16, Lit(<<":">>)>>)

\* (?:[0-9]|[1-9][0-9]|1[0-9]{2}|2[0-4][0-9]|25[0-5])
DecOctet ==
  Alt(<<Cls(Digit),
        Cat(<<Cls(Digit \ {"0"}), Cls(Digit)>>),
        Cat(<<Lit(<<"1">>), Rep(Cls(Digit), 2, 2)>>),
        Cat(<<Lit(<<"2">>), Cls({"0","1","2","3","4"}), Cls(Digit)>>),
        Cat(<<Lit(<<"2","5">>), Cls({"0","1","2","3","4","5"})>>)>>)

\* (?:h16:h16|(?:dec-octet\.){3}dec-octet)
LS32 ==
  Alt(<<Cat(<<H16, Lit(<<":">>), H16>>),
        Cat(<<Rep(Cat(<<DecOctet, Lit(<<".">>)>>), 3, 3), DecOctet>>)>>)

\* (?:(?:h16:){,n}h16)?
H16Run(n) == Opt(Cat(<<Rep(H16Colon, 0, n), H16>>))

ColonColon == Lit(<<":", ":">>)

ipv6_regex ==
  Alt(<<Cat(<<Rep(H16Colon, 6, 6), LS32>>),
        Cat(<<ColonColon, Rep(H16Colon, 5, 5), LS32>>),
        Cat(<<Opt(H16), ColonColon, Rep(H16Colon, 4, 4), LS32>>),
        Cat(<<Opt(Cat(<<H16, Lit(<<":">>), H16>>)), ColonColon,
              Rep(H16Colon, 3, 3), LS32>>),
        Cat(<<H16Run(2), ColonColon, Rep(H16Colon, 2, 2), LS32>>),
        Cat(<<H16Run(3), ColonColon, H16Colon, LS32>>),
        Cat(<<H16Run(4), ColonColon, LS32>>),
        Cat(<<H16Run(5), ColonColon, H16>>),
        Cat(<<H16Run(6), ColonColon>>)>>)

\* (\.\d{1,3}){n}
DotNum(n) == Rep(Cat(<<Lit(<<".">>), Rep(Cls(Digit), 1, 3)>>), n, n)

\* matched with .match(): at offset 0 only
priv_ip_regex ==
  Alt(<<Alt(<<Cat(<<Lit(<<"1","0">>), DotNum(3)>>),
              Cat(<<Lit(<<"1","9","2",".","1","6","8">>), DotNum(2)>>),
              Cat(<<Lit(<<"1","7","2",".">>),
                    Alt(<<Cat(<<Lit(<<"1">>), Cls({"6","7","8","9"})>>),
                          Cat(<<Lit(<<"2">>), Cls(Digit)>>),
                          Cat(<<Lit(<<"3">>), Cls({"0","1"})>>)>>),
                    DotNum(2)>>)>>),
        Cat(<<Lit(<<"1","2","7">>), DotNum(3)>>),
        Lit(<<":",":","1">>)>>)

\* [ \w\s:,+\-\(\)]
DateChar == Word \cup Space \cup {":", ",", "+", "-", "(", ")"}

\* ;[ \w\s:,+\-\(\)]+$
reg_date == Cat(<<Lit(<<";">>), Plus(Cls(DateChar)), Eos>>)

\* priv_ip_regex.match(ip)
IsPrivMatch(ip) == MatchEnd(priv_ip_regex, ip, 0) # -1

\* the end of the group of dom_regex for a match that starts at offset p:
\* the first end of the name that a right delimiter follows, or -1
DomGroupEnd(s, right, p) ==
  IF s[p + 1] \in DomLeft
  THEN First(SelectSeq(Ends(DomainName, s, p + 1), LAMBDA e : right[e + 1] # -1))
  ELSE -1

RECURSIVE DomSpans(_, _, _), DomSpansAt(_, _, _)
\* the spans of the groups of the matches of dom_regex from pos on; a match
\* takes the delimiter before the name and, unless the name ends the line,
\* the one after it, and the search goes on behind that
DomSpans(groups, right, pos) ==
  DomSpansAt(groups, right, Least({p \in pos..(Len(groups) - 1) : groups[p + 1] # -1}))

DomSpansAt(groups, right, p) ==
  IF p = -1 THEN <<>>
  ELSE <<<<p + 1, groups[p + 1]>>>> \o DomSpans(groups, right, right[groups[p + 1] + 1])

\* right is the end of the right delimiter at each offset
DomFindAllOf(s, right) ==
  Texts(s, DomSpans(Tup([p \in 1..Len(s) |-> DomGroupEnd(s, right, p - 1)]),
                    right, 0))

\* dom_regex.findall(s): the group of each match
DomFindAll(s) == DomFindAllOf(s, MatchEnds(DomRight, s))

\* the text from the end of the prefix of each match to the end of the match
RecvDomGroups(s, sp, prefix) ==
  Tup([k \in 1..Len(sp) |-> Sub(s, prefix[sp[k][1] + 1], sp[k][2])])

\* recv_dom_regex.findall(s): the group of each match, which is what
\* follows the from/by and its spaces
RecvDomFindAll(s) ==
  RecvDomGroups(s, Matches(recv_dom_regex, s), MatchEnds(RecvDomPrefix, s))

(***************************************************************************)
(* Helpers of parserouting, lines 407-492.                                 *)
(***************************************************************************)
\* \([^()]*\)
no_par == Cat(<<Lit(<<"(">>), Star(Ncls({"(", ")"})), Lit(<<")">>)>>)

RECURSIVE noparenthesis(_), NoparenthesisOf(_, _)
noparenthesis(line) == NoparenthesisOf(line, ReSub(no_par, <<>>, line))

\* line_ is the line without its innermost parentheses
NoparenthesisOf(line, line_) ==
  IF line_ = line THEN line_ ELSE noparenthesis(line_)

\* a backslash put before each of ^$[]()+?.
regprep(line) ==
  LET special(k) == line[k] \in {"^", "$", "[", "]", "(", ")", "+", "?", "."}
      at(k) == k + Cardinality({j \in 1..k : special(j)})
      n == IF line = <<>> THEN 0 ELSE at(Len(line))
  IN  Tup([m \in 1..n |->
             IF \E k \in 1..Len(line) : at(k) = m
             THEN line[CHOOSE k \in 1..Len(line) : at(k) = m] ELSE "\\"])

RECURSIVE cleanline(_), CleanlineOf(_, _)
cleanline(line) == CleanlineOf(line, Strip(Strip(line, {";"}), {" "}))

CleanlineOf(line, l2) == IF l2 = line THEN line ELSE cleanline(l2)

MonthNames == <<<<"j","a","n">>,
                <<"f","e","b">>,
                <<"m","a","r">>,
                <<"a","p","r">>,
                <<"m","a","y">>,
                <<"j","u","n">>,
                <<"j","u","l">>,
                <<"a","u","g">>,
                <<"s","e","p">>,
                <<"o","c","t">>,
                <<"n","o","v">>,
                <<"d","e","c">>>>

IsDigits(t) == t # <<>> /\ \A k \in 1..Len(t) : t[k] \in Digit

DigitVal(c) == CHOOSE n \in 0..9 : <<"0","1","2","3","4","5","6","7","8","9">>[n + 1] = c

RECURSIVE ToInt(_)
\* int(t) of a string of digits
ToInt(t) ==
  IF t = <<>> THEN 0 ELSE 10 * ToInt(SubSeq(t, 1, Len(t) - 1)) + DigitVal(t[Len(t)])

\* the value of an invalid date: parsedate_to_datetime raises on it
NoDate == [ok |-> FALSE, t |-> <<>>, tz |-> <<>>]

\* the words of a date string
DateWords(data) == SelectSeq(Split(data, <<" ">>), LAMBDA t : t # <<>>)

\* the words without a leading day of the week
NoWeekday(all) ==
  IF all # <<>> /\ all[1][Len(all[1])] = "," THEN Tail(all) ELSE all

\* the words with an empty zone when there is none
WithZone(d1) == IF Len(d1) = 4 THEN Append(d1, <<>>) ELSE d1

\* the zone of a datetime: <<>> for a naive one (no zone, or -0000), else
\* the offset hhmm in minutes
ZoneOf(tz, signed, hhmm) ==
  IF ~signed \/ (hhmm = 0 /\ tz[1] = "-") THEN <<>>
  ELSE <<(IF tz[1] = "-" THEN -1 ELSE 1) * ((hhmm \div 100) * 60 + (hhmm % 100))>>

\* the datetime of the fields t, when each is in its range
DateChecked(t, tz) ==
  IF \/ t[3] \notin 1..31 \/ t[4] > 23 \/ t[5] > 59 \/ t[6] > 59 \/ t[1] = 0
  THEN NoDate
  ELSE [ok |-> TRUE, t |-> t,
        tz |-> ZoneOf(tz, Len(tz) = 5 /\ tz[1] \in {"+", "-"} /\ IsDigits(Tail(tz)),
                      ToInt(Tail(tz)))]

\* the datetime of day, month name, year, time fields and zone
DateOf(dd, mm, yy, tm, tz) ==
  IF \/ ~IsDigits(dd) \/ ~IsDigits(yy) \/ Len(yy) # 4
     \/ \A k \in 1..12 : MonthNames[k] # mm
     \/ Len(tm) \notin {2, 3}
     \/ \E k \in 1..Len(tm) : ~IsDigits(tm[k])
  THEN NoDate
  ELSE DateChecked(<<ToInt(yy), CHOOSE k \in 1..12 : MonthNames[k] = mm,
                     ToInt(dd), ToInt(tm[1]), ToInt(tm[2]),
                     IF Len(tm) = 3 THEN ToInt(tm[3]) ELSE 0>>, tz)

DateFields(d2) ==
  IF Len(d2) < 5 THEN NoDate
  ELSE DateOf(d2[1], StrLower(d2[2]), d2[3], Split(d2[4], <<":">>), d2[5])

\* email.utils.parsedate_to_datetime on the date forms the model's lines
\* hold, "[Www,] D Mon YYYY H:M[:S] [+HHMM|-HHMM]": the fields t of the
\* datetime and tz, <<>> for a naive value and <<minutes>> for an aware
\* one.  Any other string is an invalid date.
parsedate_to_datetime(data) == DateFields(WithZone(NoWeekday(DateWords(data))))

\* dateutil.parser.parse('1970-01-01 00:00:00 +0000')
default_date == [t |-> <<1970, 1, 1, 0, 0, 0>>, tz |-> <<0>>]

\* lines 486-492: a naive date is made a UTC one
AwareDate(date_) ==
  IF ~date_.ok THEN [exc |-> "InvalidDate", val |-> [t |-> <<>>, tz |-> <<>>]]
  ELSE [exc |-> "none",
        val |-> [t |-> date_.t, tz |-> IF date_.tz = <<>> THEN <<0>> ELSE date_.tz]]

\* robust_string2date: exc is "none" when it returns val and "InvalidDate"
\* when parsedate_to_datetime raises (a ValueError from Python 3.10 on, a
\* TypeError before), which robust_string2date does not catch
robust_string2date(line) ==
  AwareDate(parsedate_to_datetime(Replace(line, <<".">>, <<":">>)))

give_dom_ip(line) ==
  ToSet(DomFindAll(<<" ">> \o line) \o FindAll(ipv4_regex, line)
        \o FindAll(ipv6_regex, line))

(***************************************************************************)
(* parserouting, lines 495-617.  Its result is [exc, out]: exc is "none"   *)
(* when it returns the dict out, and names the exception it raises         *)
(* otherwise ("InvalidDate" from robust_string2date, "KeyError").          *)
(***************************************************************************)
borders == <<<<"f","r","o","m"," ">>, <<"b","y"," ">>, <<"w","i","t","h"," ">>, <<"f","o","r"," ">>>>

\* item.strip() of a border
BorderKey(word) ==
  CASE word = <<"f","r","o","m"," ">> -> "from" [] word = <<"b","y"," ">> -> "by"
    [] word = <<"w","i","t","h"," ">> -> "with" [] word = <<"f","o","r"," ">> -> "for"

\* 0xfffffff, the end of a field no other border closes
Infinite28 == 268435455

\* lines 513-519: the normalised line.  re.sub of an escaped character is
\* the replacement of that character
Normalise(l) ==
  Strip(ReSub(Plus(Cls({" "})), <<" ">>,
              noparenthesis(Replace(Replace(Replace(l, <<")">>, <<" ", ")", " ">>),
                                            <<"(">>, <<" ", "(", " ">>),
                                    <<";">>, <<" ", ";", " ">>))),
        {"\n"})

\* lines 527-532: the first date found, stripped
FirstDate(raw_find_data) ==
  IF raw_find_data # <<>>
  THEN Strip(LStrip(raw_find_data[1], {";"}), Space)
  ELSE <<>>

\* lines 520, 527-532: the date at the end of the normalised line
ExtractDate(text) == FirstDate(FindAll(reg_date, text))

\* lines 534-535
RemoveDate(text, d) == Strip(Replace(text, d, <<>>), {" "})

\* lines 546-551: the entry of the border word at loc and the border
\* endword, whose first place in the line is end0
Endword(word, loc, endword, end0) ==
  [name_in |-> word, pos |-> loc, name_out |-> endword,
   weight |-> (IF end0 < loc \/ end0 = -1 THEN Infinite28 ELSE end0) + loc]

RECURSIVE ScanEndwords(_, _, _, _)
\* lines 545-551 for one word: one entry per other border
ScanEndwords(text, word, candidate, k) ==
  IF k > Len(candidate) THEN <<>>
  ELSE (IF Contains(text, word)
        THEN <<Endword(word, Find(text, word), candidate[k],
                       Find(text, candidate[k]))>>
        ELSE <<>>) \o ScanEndwords(text, word, candidate, k + 1)

RECURSIVE ScanWords(_, _)
\* lines 542-551 from the border w on
ScanWords(text, w) ==
  IF w > Len(borders) THEN <<>>
  ELSE ScanEndwords(text, borders[w],
                    SelectSeq(borders, LAMBDA x : x # borders[w]), 1)
       \o ScanWords(text, w + 1)

\* lines 542-551
ScanBorders(text) == ScanWords(text, 1)

RECURSIVE LineMax(_, _, _, _, _)
\* lines 561-566: the entry of word kept after the loop over result.
\* result_max is <<w>>, or <<>> for its first value 0xffffffff, which is
\* more than any weight (a weight is at most 0xfffffff plus an offset of
\* the line) and more than TLC's integers hold
LineMax(res, word, k, result_max, line_max) ==
  IF k > Len(res) THEN line_max
  ELSE IF /\ res[k].name_in = word
          /\ (result_max = <<>> \/ res[k].weight <= result_max[1])
       THEN LineMax(res, word, k + 1, <<res[k].weight>>, <<res[k]>>)
       ELSE LineMax(res, word, k + 1, result_max, line_max)

RECURSIVE SortByPos(_)
\* sorted(tout, key=getkey): by position (no two borders share one)
SortByPos(tout) ==
  IF tout = <<>> THEN <<>>
  ELSE LET m == CHOOSE k \in 1..Len(tout) :
                  \A j \in 1..Len(tout) : tout[k][1] <= tout[j][1]
       IN  <<tout[m]>>
           \o SortByPos(SubSeq(tout, 1, m - 1) \o SubSeq(tout, m + 1, Len(tout)))

\* lines 566-569: [pos, name_in] of the entry kept, if any
Marker(line_max) ==
  IF Len(line_max) > 0 THEN <<<<line_max[1].pos, line_max[1].name_in>>>>
  ELSE <<>>

RECURSIVE Markers(_, _)
\* lines 559-569 from the border w on
Markers(res, w) ==
  IF w > Len(borders) THEN <<>>
  ELSE Marker(LineMax(res, borders[w], 1, <<>>, <<>>)) \o Markers(res, w + 1)

\* lines 559-571: [pos, name_in] of each border found, by position
SelectMarkers(res) == SortByPos(Markers(res, 1))

\* the literal text a pattern made by regprep matches: \c is the character
\* c.  A backslash escapes when an even number of backslashes come right
\* before it.
Unescape(pat) ==
  LET run(k) == k - Max({0} \cup {j \in 1..k : pat[j] # "\\"})
      escapes(k) == pat[k] = "\\" /\ run(k) % 2 = 1 /\ k < Len(pat)
      kept == {k \in 1..Len(pat) : ~escapes(k)}
  IN  Tup([n \in 1..Cardinality(kept) |->
             pat[CHOOSE k \in kept : Cardinality({j \in kept : j < k}) = n - 1]])

RECURSIVE GroupSpans(_, _, _, _, _)
\* The match, started at pos, of the part of the pattern of lines 574-578
\* from border k on: border k, its group (.*), ..., then the literal date.
\* The spans <<start, end>> of the groups k.., or <<>> when there is no such
\* match.  Each .* is greedy: the longest group the rest can follow wins; a
\* dot matches no newline.
GroupSpans(l, marks, d, k, pos) ==
  IF ~At(l, marks[k][2], pos) THEN <<>>
  ELSE LET a == pos + Len(marks[k][2])
           nl == {i \in a..(Len(l) - 1) : l[i + 1] = "\n"}
           lim == IF nl = {} THEN Len(l)
                  ELSE CHOOSE i \in nl : \A j \in nl : i <= j
           ok == {b \in a..lim :
                    IF k = Len(marks) THEN At(l, d, b)
                    ELSE GroupSpans(l, marks, d, k + 1, b) # <<>>}
       IN  IF ok = {} THEN <<>>
           ELSE LET b == CHOOSE x \in ok : \A y \in ok : y <= x
                IN  <<<<a, b>>>>
                    \o (IF k = Len(marks) THEN <<>>
                        ELSE GroupSpans(l, marks, d, k + 1, b))

\* the spans of the groups of the match that starts at p, <<>> for p = -1
ReparseAt(l, marks, lit, p) ==
  IF p = -1 THEN <<>> ELSE GroupSpans(l, marks, lit, 1, p)

\* the leftmost match of the pattern that ends with the literal lit
ReparseLit(l, marks, lit) ==
  ReparseAt(l, marks, lit,
            Least({p \in 0..Len(l) : GroupSpans(l, marks, lit, 1, p) # <<>>}))

\* lines 573-581: reparse.search(line): the spans of the groups of the
\* leftmost match, <<>> when reparseg is None
Reparse(l, marks, d) ==
  ReparseLit(l, marks, IF d # <<>> THEN Unescape(regprep(d)) ELSE <<>>)

RECURSIVE FillData(_, _, _, _, _)
\* lines 584-588: the cleaned group of each border of the pattern; nothing
\* when reparseg is None (the AttributeError is swallowed)
FillData(o, l, marks, spans, k) ==
  IF spans = <<>> \/ k > Len(marks) THEN o
  ELSE FillData(Put(o, BorderKey(marks[k][2]),
                    cleanline(Sub(l, spans[k][1], spans[k][2]))),
                l, marks, spans, k + 1)

\* whether out.get(key) is a non-empty string
Truthy(o, key) == Has(o, key) /\ o[key] # <<>>

\* lines 596-598: the for field cut at " from ", the rest added to from
ForFrom(o, temp) ==
  Put(Put(o, "for", temp[1]), "from",
      o["from"] \o <<" ">> \o Join(<<" ">>, Tail(temp)))

\* lines 601-603: for becomes the set of the addresses m, or goes
ForSet(o, m) ==
  [exc |-> "none",
   out |-> IF m # <<>> THEN Put(o, "for", ToSet(m)) ELSE Del(o, "for")]

\* lines 600-603
ForEmails(o) == ForSet(o, FindAll(email_regex, o["for"]))

\* lines 593-603; exc is "KeyError" when out['from'] is read and missing
FixupFor(o) ==
  IF ~Truthy(o, "for") THEN [exc |-> "none", out |-> o]
  ELSE IF Contains(o["for"], <<"f","r","o","m">>) /\ ~Has(o, "from")
  THEN [exc |-> "KeyError", out |-> o]
  ELSE ForEmails(IF Contains(o["for"], <<"f","r","o","m">>)
                 THEN ForFrom(o, Split(o["for"], <<" ","f","r","o","m"," ">>))
                 ELSE o)

\* lines 608-609 and 614-615: the field becomes what give_dom_ip found, or
\* goes
DomIpSet(o, key, found) ==
  IF found = {} THEN Del(o, key) ELSE Put(o, key, found)

RECURSIVE FixupDomIp(_, _)
\* lines 606-609 and 612-615, for the keys "from" and "by" in turn
FixupDomIp(o, keys) ==
  IF keys = <<>> THEN o
  ELSE FixupDomIp(IF Truthy(o, Head(keys))
                  THEN DomIpSet(o, Head(keys), give_dom_ip(o[Head(keys)]))
                  ELSE o, Tail(keys))

\* lines 593-617: the fixups of the filled record
RoutingFixed(fixed) ==
  IF fixed.exc # "none" THEN [exc |-> fixed.exc, out |-> EmptyDict]
  ELSE [exc |-> "none", out |-> FixupDomIp(fixed.out, <<"from", "by">>)]

\* lines 589-617: date is what robust_string2date gave
RoutingDated(filled, date) ==
  IF date.exc # "none" THEN [exc |-> date.exc, out |-> EmptyDict]
  ELSE RoutingFixed(FixupFor(Put(filled, "date", date.val)))

\* lines 573-617: tout is the list of the borders found, by position
RoutingMarked(out0, line, npdate, tout) ==
  RoutingDated(FillData(out0, line, tout, Reparse(line, tout, npdate), 1),
               robust_string2date(npdate))

\* lines 553-617: result is the list of the border entries
RoutingScanned(out0, line, npdate, result) ==
  IF result = <<>>
  THEN [exc |-> "none", out |-> Put(out0, "warning", <<"Nothing Parsable">>)]
  ELSE RoutingMarked(out0, line, npdate, SelectMarkers(result))

\* lines 527-617: npdate is the date of the normalised line
RoutingParsed(out0, line, np, npdate) ==
  RoutingScanned(out0, line, npdate, ScanBorders(RemoveDate(np, npdate)))

\* lines 523-617: np is the normalised line
RoutingNormalised(out0, line, np) ==
  IF Contains(np, <<" ","r","e","c","e","i","v","e","d",":"," ">>)
  THEN [exc |-> "none", out |-> Put(out0, "warning", <<"Merged Received headers">>)]
  ELSE RoutingParsed(out0, line, np, ExtractDate(np))

\* lines 510-617: line is the lowercase line
RoutingLowered(out0, line) == RoutingNormalised(out0, line, Normalise(line))

parserouting(line0) == RoutingLowered(Put(EmptyDict, "src", line0), StrLower(line0))

\* lines 559-571: tout for the normalised line np
SelectedNormalised(np) ==
  SelectMarkers(ScanBorders(RemoveDate(np, ExtractDate(np))))

\* lines 537-571: the borders selected for a line, by position
Selected(line0) == SelectedNormalised(Normalise(StrLower(line0)))

\* lines 573-588: out once the groups of the match are filled in
CapturedMarked(line0, line, npdate, tout) ==
  FillData(Put(EmptyDict, "src", line0), line, tout, Reparse(line, tout, npdate), 1)

CapturedNormalised(line0, line, np) ==
  CapturedMarked(line0, line, ExtractDate(np), SelectedNormalised(np))

\* lines 511-588: out before the date and the fixups, for a line that
\* is not left at line 525 or 557
Captured(line0) ==
  CapturedNormalised(line0, StrLower(line0), Normalise(StrLower(line0)))

(***************************************************************************)
(* The Received lines the model runs on: a line is a from, a by, a with    *)
(* and a for clause, each present or not, and a date clause or none; and   *)
(* a few lines of other shapes.                                            *)
(***************************************************************************)
\* nothing, "from a.bc ", "From localhost ", "from [10.0.0.5] ", "from mx.a.bc (1.1.1.1) "
FromParts ==
  <<
     <<>>,
     <<"f","r","o","m"," ","a",".","b","c"," ">>,
     <<"F","r","o","m"," ","l","o","c","a","l","h","o","s","t"," ">>,
     <<"f","r","o","m"," ","[","1","0",".","0",".","0",".","5","]"," ">>,
     <<"f","r","o","m"," ","m","x",".","a",".","b","c"," ","(","1",".","1",
       ".","1",".","1",")"," ">>
  >>

\* nothing, "by d.ef "
ByParts ==
  <<
     <<>>,
     <<"b","y"," ","d",".","e","f"," ">>
  >>

\* nothing, "with smtp "
WithParts ==
  <<
     <<>>,
     <<"w","i","t","h"," ","s","m","t","p"," ">>
  >>

\* nothing, "for u@a.bc ", "for u@a.bc v@a.bc ", "for u@from.ef "
ForParts ==
  <<
     <<>>,
     <<"f","o","r"," ","u","@","a",".","b","c"," ">>,
     <<"f","o","r"," ","u","@","a",".","b","c"," ","v","@","a",".","b","c",
       " ">>,
     <<"f","o","r"," ","u","@","f","r","o","m",".","e","f"," ">>
  >>

\* nothing, "; 1 Jan 2024 0:0", "; Mon, 1 Jan 2024 00:00:00 +0100"
Tails ==
  <<
     <<>>,
     <<";"," ","1"," ","J","a","n"," ","2","0","2","4"," ","0",":","0">>,
     <<";"," ","M","o","n",","," ","1"," ","J","a","n"," ","2","0","2","4",
       " ","0","0",":","0","0",":","0","0"," ","+","0","1","0","0">>
  >>

\* "hello"; two lines with received: inside, after a space and after a
\* letter; a date that is no date; a date with double spaces; a line with
\* host names and an address in parentheses; a from clause with nothing
\* in it; a line with two by clauses; a for clause with "from" in
\* parentheses, and one followed by a from clause; a by in parentheses
ExtraLines ==
  <<
     <<"h","e","l","l","o">>,
     <<"x"," ","r","e","c","e","i","v","e","d",":"," ","f","r","o","m"," ",
       "a",".","b","c",";"," ","1"," ","J","a","n"," ","2","0","2","4"," ",
       "0",":","0">>,
     <<"x","r","e","c","e","i","v","e","d",":"," ","f","r","o","m"," ","a",
       ".","b","c",";"," ","1"," ","J","a","n"," ","2","0","2","4"," ","0",
       ":","0">>,
     <<"f","r","o","m"," ","a",".","b","c",";"," ","1"," ","J","a","n">>,
     <<"f","r","o","m"," ","a",".","b","c"," ","b","y"," ","d",".","e","f",
       ";"," "," ","M","o","n",","," "," ","1"," ","J","a","n"," ","2","0",
       "2","4"," ","0","0",":","0","0",":","0","0"," ","+","0","0","0","0">>,
     <<"f","r","o","m"," ","m","a","i","l",".","e","x","a","m","p","l","e",
       ".","c","o","m"," ","(","m","a","i","l",".","e","x","a","m","p","l",
       "e",".","c","o","m"," ","[","1","9","2",".","1","6","8",".","1",".",
       "1","]",")"," ","b","y"," ","m","x",".","e","x","a","m","p","l","e",
       ".","o","r","g",";"," ","M","o","n",","," ","1"," ","J","a","n"," ",
       "2","0","2","4"," ","0","0",":","0","0",":","0","0"," ","+","0","0",
       "0","0">>,
     <<"f","r","o","m"," ","b","y"," ","d",".","e","f",";"," ","1"," ","J",
       "a","n"," ","2","0","2","4"," ","0",":","0">>,
     <<"f","r","o","m"," ","a",".","b","c"," ","b","y"," ","d",".","e","f",
       " ","b","y"," ","x",".","y","z",";"," ","1"," ","J","a","n"," ","2",
       "0","2","4"," ","0",":","0">>,
     <<"b","y"," ","d",".","e","f"," ","f","o","r"," ","u","@","a",".","b",
       "c"," ","(","h","e","l","o"," ","f","r","o","m"," ","x",")",";"," ",
       "1"," ","J","a","n"," ","2","0","2","4"," ","0",":","0">>,
     <<"f","r","o","m"," ","a",".","b","c"," ","f","o","r"," ","u","@","a",
       ".","b","c"," ","f","r","o","m"," ","x",".","y","z"," ","b","y"," ",
       "d",".","e","f",";"," ","1"," ","J","a","n"," ","2","0","2","4"," ",
       "0",":","0">>,
     <<"f","r","o","m"," ","a",".","b","c"," ","(","h","e","l","o"," ","b",
       "y"," ","b",".","c","d",")"," ","b","y"," ","d",".","e","f",";"," ",
       "1"," ","J","a","n"," ","2","0","2","4"," ","0",":","0">>
  >>

\* the arguments parserouting is called with
RoutingLines ==
  {FromParts[a] \o ByParts[b] \o WithParts[c] \o ForParts[d] \o Tails[e] :
     a \in 1..Len(FromParts), b \in 1..Len(ByParts), c \in 1..Len(WithParts),
     d \in 1..Len(ForParts), e \in 1..Len(Tails)}
  \cup ToSet(ExtraLines)

(***************************************************************************)
(* parse_email, lines 634-820: the configuration and the Received headers. *)
(***************************************************************************)
\* line 720: re.sub(r'(\r|\n|\s|\t)+', ' ', l.lower())
Squash(l) ==
  ReSub(Plus(Alt(<<Lit(<<"\r">>), Lit(<<"\n">>), Cls(Space), Lit(<<"\t">>)>>)),
        <<" ">>, StrLower(l))

\* lines 722-730, 759, 763, 769, 782: for the line l as it is parsed, what
\* parserouting makes of it and what each pattern finds in it
ScanLine(l) ==
  [l |-> l,
   current_line |-> parserouting(l),
   ipv6 |-> FindAll(ipv6_regex, l),
   ipv4 |-> FindAll(ipv4_regex, l),
   dom |-> RecvDomFindAll(l),
   email |-> FindAll(email_regex, l)]

\* lines 718-730, 759, 763, 769, 782 for the header value l0
ReceivedScan(l0) == ScanLine(Squash(l0))

\* The values of the Received headers of the messages the model parses:
\* hops with host names, with public, private and loopback addresses, with
\* one and two for addresses, one without a date, one with no marker, one
\* folded over two lines, one whose for clause holds "from", one whose by
\* clause holds two names of one gateway, one with no from clause.
ReceivedLines ==
  <<
     <<"f","r","o","m"," ","a",".","b","c"," ","b","y"," ","d",".","e","f",
       " ","f","o","r"," ","u","@","a",".","b","c",";"," ","1"," ","J","a",
       "n"," ","2","0","2","4"," ","0",":","0">>,
     <<"f","r","o","m"," ","m","x",".","a",".","b","c"," ","(","1",".","1",
       ".","1",".","1",")"," ","b","y"," ","d",".","e","f"," ","f","o","r",
       " ","u","@","a",".","b","c"," ","v","@","a",".","b","c",";"," ","M",
       "o","n",","," ","1"," ","J","a","n"," ","2","0","2","4"," ","0","0",
       ":","0","0",":","0","0"," ","+","0","1","0","0">>,
     <<"f","r","o","m"," ","[","1","0",".","0",".","0",".","5","]"," ","b",
       "y"," ","d",".","e","f",";"," ","1"," ","J","a","n"," ","2","0","2",
       "4"," ","0",":","0">>,
     <<"f","r","o","m"," ","[","0",":","0",":","0",":","0",":","0",":","0",
       ":","0",":","1","]"," ","b","y"," ","x",".","y","z",";"," ","1"," ",
       "J","a","n"," ","2","0","2","4"," ","0",":","0">>,
     <<"f","r","o","m"," ","[",":",":","1","]"," ","(","2",".","2",".","2",
       ".","2",")"," ","b","y"," ","x",".","y","z"," ","f","o","r"," ","<",
       "w","@","d",".","e","f",">",";"," ","1"," ","J","a","n"," ","2","0",
       "2","4"," ","0",":","0">>,
     <<"f","r","o","m"," ","a",".","b","c"," ","b","y"," ","d",".","e","f">>,
     <<"h","e","l","l","o">>,
     <<"F","r","o","m"," "," ","A",".","b","c","\r","\n","\t","b","y"," ",
       "D",".","e","f"," ","(","1","9","2",".","1","6","8",".","1",".","1",
       " ","[","1","7","2",".","1","6",".","0",".","1","]"," ","1","2","7",
       ".","0",".","0",".","1",")",";"," ","1"," ","J","a","n"," ","2","0",
       "2","4"," ","0",":","0">>,
     <<"b","y"," ","d",".","e","f"," ","f","o","r"," ","u","@","f","r","o",
       "m",".","e","f",";"," ","1"," ","J","a","n"," ","2","0","2","4"," ",
       "0",":","0">>,
     <<"f","r","o","m"," ","a",".","b","c"," ","b","y"," ","m","x",".","g",
       "w",".","e","f"," ","(","g","w",".","e","f",")",";"," ","1"," ","J",
       "a","n"," ","2","0","2","4"," ","0",":","0">>,
     <<"b","y"," ","d",".","e","f"," ","w","i","t","h"," ","s","m","t","p",
       ";"," ","1"," ","J","a","n"," ","2","0","2","4"," ","0",":","0">>
  >>

\* ReceivedScan of each of ReceivedLines, computed once
ReceivedTable == Tup([k \in 1..Len(ReceivedLines) |-> ReceivedScan(ReceivedLines[k])])

\* ReceivedScan(l0) for a header value of ReceivedLines
ScanOf(l0) ==
  ReceivedTable[CHOOSE k \in 1..Len(ReceivedLines) : ReceivedLines[k] = l0]

\* what stands for Python's None
None == "None"

\* the lowercase form of each string of a list
LowerAll(qs) == Tup([k \in 1..Len(qs) |-> StrLower(qs[k])])

\* lines 759-766: the addresses a line adds to received_ip
ReceivedIps(sc, whiteip) ==
  LowerAll(SelectSeq(sc.ipv6, LAMBDA ips :
             ~IsPrivMatch(ips) /\ StrLower(ips) \notin ToSet(whiteip)))
  \o LowerAll(SelectSeq(sc.ipv4, LAMBDA ips :
                 ~IsPrivMatch(ips) /\ ips \notin ToSet(whiteip)))

\* lines 769-778: the names a line adds to received_domain
ReceivedDomains(sc) ==
  SelectSeq(sc.dom, LAMBDA m :
    ~(/\ Contains(m, <<".">>)
      /\ \/ MatchEnd(ipv4_regex, m, 0) # -1
         \/ m = <<"1","2","7",".","0",".","0",".","1">>))

\* lines 782-789: the addresses a line adds to received_email
ReceivedEmails(sc, current_line) ==
  IF Has(current_line, "for") /\ current_line["for"] # {}
  THEN SelectSeq(sc.email, LAMBDA mail_candidate :
                   mail_candidate \notin current_line["for"])
  ELSE sc.email

\* ByHostPairs with the byhostentry compared as the caller wrote it
ByHostPairsCased(current_line, byhostentry) ==
  IF Has(current_line, "by") /\ current_line["by"] # {}
  THEN {p \in current_line["by"] \X (1..Len(byhostentry)) :
          Contains(p[1], byhostentry[p[2]])}
  ELSE {}

\* lines 741-744: the pairs of a by item of the line and a byhostentry (by
\* its place in the list) whose lowercase form occurs in the item
ByHostPairs(current_line, byhostentry) ==
  IF Has(current_line, "by") /\ current_line["by"] # {}
  THEN {p \in current_line["by"] \X (1..Len(byhostentry)) :
          Contains(p[1], StrLower(byhostentry[p[2]]))}
  ELSE {}

\* the counter found with each key of keys raised by the number of pairs
\* of the key
Counted(found, byhostentry, pairs, keys) ==
  [k \in DOMAIN found \cup keys |->
     (IF k \in DOMAIN found THEN found[k] ELSE 0)
     + Cardinality({p \in pairs : StrLower(byhostentry[p[2]]) = k})]

\* the lowercase byhostentry of each pair
PairKeys(byhostentry, pairs) == {StrLower(byhostentry[p[2]]) : p \in pairs}

CountPairs(found, byhostentry, pairs) ==
  Counted(found, byhostentry, pairs, PairKeys(byhostentry, pairs))

\* line 749 for every pair: the counter after the line
CountSmtpin(found, current_line, byhostentry) ==
  CountPairs(found, byhostentry, ByHostPairs(current_line, byhostentry))

\* n times the list of one string that line 752 appends
Nested(n) == Tup([k \in 1..n |-> <<"Duplicate SMTP by entrypoint">>])

\* lines 750-754 for dups pairs that find their counter above 1: the first
\* such pair of a line without warning sets the warning, each other one
\* appends a list of one string to it
Warned(current_line, dups) ==
  IF dups = 0 THEN current_line
  ELSE IF Has(current_line, "warning") /\ current_line["warning"] # <<>>
  THEN Put(current_line, "warning", current_line["warning"] \o Nested(dups))
  ELSE Put(current_line, "warning",
           <<"Duplicate SMTP by entrypoint">> \o Nested(dups - 1))

\* a pair finds its counter above 1 unless it is the first ever for its key
WarnPairs(found, current_line, byhostentry, pairs) ==
  Warned(current_line,
         Cardinality(pairs)
         - Cardinality(PairKeys(byhostentry, pairs) \ DOMAIN found))

\* lines 750-754 for every pair: the line with its duplicate warnings
WarnDuplicates(found, current_line, byhostentry) ==
  WarnPairs(found, current_line, byhostentry,
            ByHostPairs(current_line, byhostentry))

\* lines 796-802: the for addresses of the hops that hold an address not
\* in whitefor (line 802 adds the whole for list of the hop)
ReceivedForemail(received, whitefor) ==
  UNION {received[k]["for"] :
           k \in {j \in 1..Len(received) :
                    /\ Has(received[j], "for")
                    /\ \E itemfor \in received[j]["for"] :
                         itemfor \notin ToSet(whitefor)}}

\* lines 809-820: the empty aggregates (but received) dropped
DropEmpty(h) ==
  [k \in {x \in DOMAIN h : x \in {"received", "received_src"} \/ h[x] # {}} |-> h[k]]

\* lines 805-807: each aggregate as a set
UniqSets(h) ==
  [k \in DOMAIN h |->
     IF k \in {"received_email", "received_domain", "received_ip"}
     THEN ToSet(h[k]) ELSE h[k]]

\* lines 794-820: what is left of the aggregates
UniqAggregates(h, whitefor) ==
  DropEmpty(UniqSets(IF h["received"] # <<>>
                     THEN Put(h, "received_foremail",
                              ReceivedForemail(h["received"], whitefor))
                     ELSE h))

(***************************************************************************)
(* parse_email, lines 832-887: the indicators of a body text.  A body is   *)
(* the record [pre, core, post]: pre times the filler character, the       *)
(* characters of core, post times the filler.  The filler is a double      *)
(* quote: no pattern of lines 68-84 takes it and no anchor holds it, so a  *)
(* pattern finds in a text what it finds in the core with one filler for   *)
(* each run of fillers next to it.                                         *)
(***************************************************************************)
Filler == "\""

\* len(text)
TextLen(text) == text.pre + Len(text.core) + text.post

\* the number of offsets of lo..hi-1 that are in a..b-1
Overlap(a, b, lo, hi) ==
  IF Min({b, hi}) > Max({a, lo}) THEN Min({b, hi}) - Max({a, lo}) ELSE 0

\* the offsets a..b-1 of the text, 0 <= a and b <= len(text)
Cut(text, a, b) ==
  IF a >= b THEN [pre |-> 0, core |-> <<>>, post |-> 0]
  ELSE [pre |-> Overlap(a, b, 0, text.pre),
        core |-> Sub(text.core, Max({a - text.pre, 0}), Max({b - text.pre, 0})),
        post |-> Overlap(a, b, text.pre + Len(text.core), TextLen(text))]

\* the start of a slice of a text of n characters: a negative start
\* counts from the end, and no start is before the text or behind it
SliceStart(a, n) == IF a < 0 THEN Max({a + n, 0}) ELSE Min({a, n})

\* text[a:b], for b >= 0
Slice(text, a, b) ==
  Cut(text, SliceStart(a, TextLen(text)), Min({b, TextLen(text)}))

\* the characters a pattern is run on
Shown(text) ==
  (IF text.pre > 0 THEN <<Filler>> ELSE <<>>) \o text.core
  \o (IF text.post > 0 THEN <<Filler>> ELSE <<>>)

\* lines 391-404: the offsets of pat in the text
findall(pat, text) ==
  {text.pre + i : i \in {j \in 0..(Len(text.core) - Len(pat)) : At(text.core, pat, j)}}

\* [a-z] under re.I
Letter == Lower \cup Upper

\* [a-z0-9\-_] under re.I
UrlHost == Alnum \cup {"-", "_"}

\* the class of the path of url_regex_simple, the space with it
UrlPath ==
  Alnum \cup {"_", "-", ".", "~", "!", "*", "'", "(", ")", ";", ":", "@", "&",
              "=", "+", "$", ",", "/", " ", "?", "%", "#", "[", "]"}

\* lines 82-84
url_regex_simple ==
  Cat(<<Rep(Cls(Letter), 3, -1), Opt(Cls({"s", "S"})), Lit(<<":", "/", "/">>),
        Plus(Cls(UrlHost \cup {":"})),
        Star(Cat(<<Lit(<<".">>), Plus(Cls(UrlHost))>>)),
        Opt(Cat(<<Lit(<<"/">>), Star(Cls(UrlPath))>>))>>)

\* urllib.parse.urlparse(url).geturl() for a URL scheme://rest with no
\* empty query or fragment: the scheme in lowercase
GetUrl(url, i) == StrLower(Sub(url, 0, i)) \o Sub(url, i, Len(url))

\* line 359: the URL up to the first of the characters ' " , ) } \ and
\* the space
UrlHead(url) ==
  Sub(url, 0, Least({k \in 0..Len(url) :
                       k = Len(url) \/ url[k + 1] \in {"'", "\"", ",", " ", ")", "}", "\\"}}))

\* lines 356-359 for one match
UrlOf(url) == UrlHead(GetUrl(url, Find(url, <<":", "/", "/">>)))

\* lines 344-362, on the characters of a text
get_uri_ondata(data) ==
  {UrlOf(Replace(m, <<"h","x","x","p">>, <<"h","t","t","p">>)) :
     m \in ToSet(FindAll(url_regex_simple, data))}

\* lines 849-850 and 867-868
ObservedEmail(data) == {StrLower(m) : m \in ToSet(FindAll(email_regex, data))}

\* lines 851-852 and 873-874
ObservedDom(data) == {StrLower(m) : m \in ToSet(DomFindAll(data))}

\* lines 853-856 and 877-880
ObservedIpv4(data, whiteip) ==
  {m \in ToSet(FindAll(ipv4_regex, data)) :
     ~IsPrivMatch(m) /\ m \notin ToSet(whiteip)}

\* lines 857-860 and 884-887
ObservedIpv6(data, whiteip) ==
  {StrLower(m) : m \in {x \in ToSet(FindAll(ipv6_regex, data)) :
                          ~IsPrivMatch(x) /\ StrLower(x) \notin ToSet(whiteip)}}

\* lines 848-860 on the characters of the body
ExhaustiveOn(data, whiteip) ==
  [uri |-> get_uri_ondata(data),
   email |-> ObservedEmail(data),
   domain |-> ObservedDom(data),
   ip |-> ObservedIpv4(data, whiteip) \cup ObservedIpv6(data, whiteip)]

\* lines 848-860: every pattern over the whole body
Exhaustive(text, whiteip) == ExhaustiveOn(Shown(text), whiteip)

\* lines 862-887: every pattern over a window at each anchor
Windowed(text, whiteip) ==
  [uri |-> UNION {get_uri_ondata(Shown(Slice(text, p - 16, p + 4096))) :
                    p \in findall(<<":", "/", "/">>, text)},
   email |-> UNION {ObservedEmail(Shown(Slice(text, p - 64, p + 255))) :
                      p \in findall(<<"@">>, text)},
   domain |-> UNION {ObservedDom(Shown(Slice(text, p - 253, p + 1004))) :
                       p \in findall(<<".">>, text)},
   ip |-> UNION {ObservedIpv4(Shown(Slice(text, p - 11, p + 3)), whiteip) :
                   p \in findall(<<".">>, text)}
          \cup UNION {ObservedIpv6(Shown(Slice(text, p - 4, p + 35)), whiteip) :
                        p \in findall(<<":">>, text)}]

(***************************************************************************)
(* State.  pc is the control point of the operation under way.             *)
(*   line_in, ret       parserouting: its argument, and how it ended       *)
(*   msg                parse_email: the values of the Received headers    *)
(*   pconf              the configuration dict of the caller               *)
(*   pybuild            the exception parsedate_to_datetime raises on an   *)
(*                      invalid date: ValueError from Python 3.10 on,      *)
(*                      TypeError before                                   *)
(*   headers_struc      the header part of the report                      *)
(*   found_smtpin       the counter of byhostentry hits                    *)
(*   idx                the number of Received headers gone through        *)
(*   body, observed     the text of a body part and its indicators         *)
(*   quad, matched      a text that holds a dotted quad, and what          *)
(*                      ipv4_regex.findall gives for it                    *)
(*   cur, lline, idem   noparenthesis and cleanline: the line as the loop  *)
(*                      has it (line_, line), the one of the turn before,  *)
(*                      and whether the loop is over                       *)
(*   mime               parse_email: the message and its parts             *)
(*   include_raw_body   the argument of parse_email                        *)
(*   raw_body, bodys    the body texts of the parts, and their entries     *)
(*   bodys_struc        the body structure of parse_email                  *)
(*   report_struc       the report: its bodies and attachments             *)
(***************************************************************************)
VARIABLES pc, line_in, ret, msg, pconf, pybuild, headers_struc, found_smtpin,
          idx, body, observed, quad, matched, cur, lline, idem, mime,
          include_raw_body, raw_body, bodys_struc, bodys, report_struc

routingVars == <<line_in, ret>>
mailVars == <<msg, pconf, pybuild, headers_struc, found_smtpin, idx>>
scanVars == <<body, observed, quad, matched>>
cleanVars == <<cur, lline, idem>>
mimeVars == <<mime, include_raw_body, raw_body, bodys_struc, bodys, report_struc>>
vars == <<pc, line_in, ret, msg, pconf, pybuild, headers_struc, found_smtpin,
          idx, body, observed, quad, matched, cur, lline, idem, mime,
          include_raw_body, raw_body, bodys_struc, bodys, report_struc>>

\* no call made yet
NoReturn == [exc |-> "none", out |-> EmptyDict]

IdleRouting == line_in = <<>> /\ ret = NoReturn

IdleMail ==
  /\ msg = <<>>
  /\ pconf = EmptyDict
  /\ pybuild = "ValueError"
  /\ headers_struc = EmptyDict
  /\ found_smtpin = EmptyDict
  /\ idx = 0

\* no indicator yet
NoObserved == [uri |-> {}, email |-> {}, domain |-> {}, ip |-> {}]

IdleBody == body = [pre |-> 0, core |-> <<>>, post |-> 0] /\ observed = NoObserved

IdleQuad == quad = [octets |-> <<>>, around |-> <<>>] /\ matched = <<>>

IdleClean == cur = <<>> /\ lline = <<>> /\ idem = FALSE

IdleMime ==
  /\ mime = <<>>
  /\ include_raw_body = FALSE
  /\ raw_body = <<>>
  /\ bodys_struc = EmptyDict
  /\ bodys = <<>>
  /\ report_struc = EmptyDict

(***************************************************************************)
(* parserouting as an operation: called on a line, it returns a dict or   *)
(* raises.                                                                 *)
(***************************************************************************)
InitRouting ==
  /\ pc = "parserouting"
  /\ line_in \in RoutingLines
  /\ ret = NoReturn
  /\ IdleMail
  /\ IdleBody
  /\ IdleQuad
  /\ IdleClean
  /\ IdleMime

\* lines 495-617
CallParserouting ==
  /\ pc = "parserouting"
  /\ ret' = parserouting(line_in)
  /\ pc' = IF ret'.exc = "none" THEN "returned" ELSE "raised"
  /\ UNCHANGED <<line_in, mailVars, scanVars, cleanVars, mimeVars>>

NextRouting == CallParserouting

SpecRouting == InitRouting /\ [][NextRouting]_vars

(***************************************************************************)
(* parse_email over the Received headers of a message.                     *)
(***************************************************************************)
\* the most Received headers a message of the model has
MaxHops == 2

Messages == UNION {[1..n -> ToSet(ReceivedLines)] : n \in 0..MaxHops}

\* the pconf arguments: none; an IP whitelist; a for whitelist; a gateway
\* name; all three
Pconfs ==
  {EmptyDict,
   [whiteip |-> <<<<"2",".","2",".","2",".","2">>,
                  <<"1","0",".","0",".","0",".","5">>>>],
   [whitefor |-> <<<<"u","@","a",".","b","c">>>>],
   [byhostentry |-> <<<<"D",".","e","f">>>>],
   [whiteip |-> <<<<"1",".","1",".","1",".","1">>>>,
    whitefor |-> <<<<"w","@","d",".","e","f">>>>,
    byhostentry |-> <<<<"d",".","e","f">>, <<"e","f">>>>]}

Init ==
  /\ pc = "start"
  /\ msg \in Messages
  /\ pconf \in Pconfs
  /\ pybuild \in {"ValueError", "TypeError"}
  /\ headers_struc = EmptyDict
  /\ found_smtpin = EmptyDict
  /\ idx = 0
  /\ IdleRouting
  /\ IdleBody
  /\ IdleQuad
  /\ IdleClean
  /\ IdleMime

\* lines 652-715: the defaults of pconf and the empty aggregates
Start ==
  /\ pc = "start"
  /\ pconf' = [k \in DOMAIN pconf \cup {"whiteip", "whitefor"} |->
                 IF k \in DOMAIN pconf THEN pconf[k] ELSE <<>>]
  /\ headers_struc' = [received |-> <<>>, received_email |-> <<>>,
                       received_domain |-> <<>>, received_ip |-> <<>>]
  /\ found_smtpin' = EmptyDict
  /\ pc' = "received"
  /\ UNCHANGED <<msg, pybuild, idx, routingVars, scanVars, cleanVars,
                 mimeVars>>

\* lines 756-789: the line, with its warnings, added to received, and
\* what it adds to each aggregate; received_src is set when a by item of
\* the line holds a byhostentry (lines 745-748)
HeaderAdded(sc, byhostentry, current_line) ==
  headers_struc' =
    [(IF ByHostPairs(sc.current_line.out, byhostentry) # {}
      THEN Put(headers_struc, "received_src",
               IF Has(current_line, "from") THEN current_line["from"] ELSE None)
      ELSE headers_struc)
     EXCEPT !["received"] = Append(@, current_line),
            !["received_ip"] = @ \o ReceivedIps(sc, pconf["whiteip"]),
            !["received_domain"] = @ \o ReceivedDomains(sc),
            !["received_email"] = @ \o ReceivedEmails(sc, current_line)]

\* lines 730-792 for a line parserouting ended on with exc.  An exception
\* leaves the loop: a TypeError is caught at line 791 and the headers left
\* are skipped, any other leaves parse_email.
HeaderParsed(sc, exc, byhostentry) ==
  IF exc = "none"
  THEN /\ HeaderAdded(sc, byhostentry,
                      WarnDuplicates(found_smtpin, sc.current_line.out, byhostentry))
       /\ found_smtpin' = CountSmtpin(found_smtpin, sc.current_line.out, byhostentry)
       /\ idx' = idx + 1
       /\ pc' = "received"
  ELSE /\ pc' = IF exc = "TypeError" THEN "uniq" ELSE "raised"
       /\ UNCHANGED <<headers_struc, found_smtpin, idx>>

\* sc is what the line and parserouting gave; an invalid date raises the
\* exception of the Python build
HeaderScanned(sc, byhostentry) ==
  HeaderParsed(sc, IF sc.current_line.exc = "InvalidDate" THEN pybuild
                   ELSE sc.current_line.exc, byhostentry)

\* lines 717-792, one turn of the loop
ReceivedHeader ==
  /\ pc = "received"
  /\ idx < Len(msg)
  /\ HeaderScanned(ScanOf(msg[idx + 1]),
                   IF Has(pconf, "byhostentry") THEN pconf["byhostentry"] ELSE <<>>)
  /\ UNCHANGED <<msg, pconf, pybuild, routingVars, scanVars, cleanVars,
                 mimeVars>>

\* lines 794-820, after the loop: received_foremail, and each aggregate
\* made a set, dropped when empty
Uniq ==
  /\ pc = "uniq" \/ (pc = "received" /\ idx = Len(msg))
  /\ headers_struc' = UniqAggregates(headers_struc, pconf["whitefor"])
  /\ pc' = "done"
  /\ UNCHANGED <<msg, pconf, pybuild, found_smtpin, idx, routingVars,
                 scanVars, cleanVars, mimeVars>>

Next == Start \/ ReceivedHeader \/ Uniq

Spec == Init /\ [][Next]_vars

(***************************************************************************)
(* parse_email over the text of a body part, lines 832-887.                *)
(***************************************************************************)
\* "u@a.bc", " d.ef u@a.bc ", "1.2.3.100", " 1.2.3.4 ", "http://a.bc/x",
\* " see HTTPS://a.bc/x, ", " fe80::1 ", "10.0.0.5 8.8.8.8", "hello"
Cores ==
  {<<"u","@","a",".","b","c">>,
   <<" ","d",".","e","f"," ","u","@","a",".","b","c"," ">>,
   <<"1",".","2",".","3",".","1","0","0">>,
   <<" ","1",".","2",".","3",".","4"," ">>,
   <<"h","t","t","p",":","/","/","a",".","b","c","/","x">>,
   <<" ","s","e","e"," ","H","T","T","P","S",":","/","/","a",".","b","c","/",
     "x",","," ">>,
   <<" ","f","e","8","0",":",":","1"," ">>,
   <<"1","0",".","0",".","0",".","5"," ","8",".","8",".","8",".","8">>,
   <<"h","e","l","l","o">>}

\* the number of fillers before the core
Pads == {0, 100}

\* the lengths of the bodies that are longer than their core and its pad
Lengths == {4095, 4096, 4097}

\* the bodies: a core behind its pad, alone or filled up to a length
Bodies ==
  {[pre |-> p, core |-> c, post |-> 0] : p \in Pads, c \in Cores}
  \cup {[pre |-> p, core |-> c, post |-> n - p - Len(c)] :
          p \in Pads, c \in Cores, n \in Lengths}

\* pconf with its defaults (lines 658-665): no whitelist, or one address
BodyPconfs ==
  {[whiteip |-> <<>>, whitefor |-> <<>>],
   [whiteip |-> <<<<"8",".","8",".","8",".","8">>>>, whitefor |-> <<>>]}

InitBody ==
  /\ pc = "body"
  /\ body \in Bodies
  /\ observed = NoObserved
  /\ msg = <<>>
  /\ pconf \in BodyPconfs
  /\ pybuild = "ValueError"
  /\ headers_struc = EmptyDict
  /\ found_smtpin = EmptyDict
  /\ idx = 0
  /\ IdleRouting
  /\ IdleQuad
  /\ IdleClean
  /\ IdleMime

\* line 847: the scan of the body is chosen by its length
ChooseScan ==
  /\ pc = "body"
  /\ pc' = IF TextLen(body) < 4096 THEN "exhaustive" ELSE "windowed"
  /\ UNCHANGED <<routingVars, mailVars, scanVars, cleanVars, mimeVars>>

\* lines 848-860
ExhaustiveScan ==
  /\ pc = "exhaustive"
  /\ observed' = Exhaustive(body, pconf["whiteip"])
  /\ pc' = "scanned"
  /\ UNCHANGED <<routingVars, mailVars, cleanVars, mimeVars, body, quad,
                 matched>>

\* lines 862-887
WindowedScan ==
  /\ pc = "windowed"
  /\ observed' = Windowed(body, pconf["whiteip"])
  /\ pc' = "scanned"
  /\ UNCHANGED <<routingVars, mailVars, cleanVars, mimeVars, body, quad,
                 matched>>

NextBody == ChooseScan \/ ExhaustiveScan \/ WindowedScan

SpecBody == InitBody /\ [][NextBody]_vars

(***************************************************************************)
(* ipv4_regex.findall (lines 763 and 853) over a text that holds one       *)
(* dotted quad.                                                            *)
(***************************************************************************)
\* the texts of the octets: "1", "25", "255", "256", "300"
OctetTexts ==
  {<<"1">>, <<"2","5">>, <<"2","5","5">>, <<"2","5","6">>, <<"3","0","0">>}

\* the quad alone, or between two spaces
Arounds == {<<>>, <<" ">>}

\* the text of a quad
QuadToken(q) == Join(<<".">>, q.octets)

QuadText(q) == q.around \o QuadToken(q) \o q.around

InitQuad ==
  /\ pc = "findall"
  /\ quad \in [octets : [1..4 -> OctetTexts], around : Arounds]
  /\ matched = <<>>
  /\ IdleMail
  /\ IdleRouting
  /\ IdleBody
  /\ IdleClean
  /\ IdleMime

\* ipv4_regex.findall(text)
FindIpv4 ==
  /\ pc = "findall"
  /\ matched' = FindAll(ipv4_regex, QuadText(quad))
  /\ pc' = "found"
  /\ UNCHANGED <<routingVars, mailVars, cleanVars, mimeVars, body,
                 observed, quad>>

NextQuad == FindIpv4

SpecQuad == InitQuad /\ [][NextQuad]_vars

(***************************************************************************)
(* The loops of noparenthesis (lines 417-426) and cleanline (lines         *)
(* 456-463), one turn a step.                                              *)
(***************************************************************************)
\* the most characters of an argument of the two functions
MaxLineLen == 6

\* the arguments of noparenthesis: parentheses, nested or not, closed or
\* not, around and between letters
ParenLines == UNION {[1..n -> {"(", ")", "a"}] : n \in 0..MaxLineLen}

\* the arguments of cleanline: spaces and semicolons around and between
\* letters
EdgeLines == UNION {[1..n -> {";", " ", "a"}] : n \in 0..MaxLineLen}

\* lines 417-418 and 456
InitCleanup ==
  /\ \/ pc = "noparenthesis" /\ line_in \in ParenLines
     \/ pc = "cleanline" /\ line_in \in EdgeLines
  /\ cur = line_in
  /\ lline = <<>>
  /\ idem = FALSE
  /\ ret = NoReturn
  /\ IdleMail
  /\ IdleBody
  /\ IdleQuad
  /\ IdleMime

\* line 422: re.sub(no_par, '', line_) for every line of ParenLines
NoparTable == [l \in ParenLines |-> ReSub(no_par, <<>>, l)] @@ <<>>

\* lines 420-424: one turn of the loop of noparenthesis
NoparTurn ==
  /\ pc = "noparenthesis"
  /\ ~idem
  /\ lline' = cur
  /\ cur' = NoparTable[cur]
  /\ idem' = (cur' = cur)
  /\ UNCHANGED <<pc, routingVars, mailVars, scanVars, mimeVars>>

\* line 426
NoparReturn ==
  /\ pc = "noparenthesis"
  /\ idem
  /\ pc' = "noparenthesis returned"
  /\ UNCHANGED <<routingVars, mailVars, scanVars, cleanVars, mimeVars>>

\* StripTurn with the semicolons taken only
StripTurnSemicolons(line) == Strip(line, {";"})

\* lines 459-460: the line with its semicolons, then its spaces, taken
\* from both ends
StripTurn(line) == Strip(Strip(line, {";"}), {" "})

\* lines 459-460: the two strips for every line of EdgeLines
CleanTable == [l \in EdgeLines |-> StripTurn(l)] @@ <<>>

\* lines 457-462: one turn of the loop of cleanline
CleanTurn ==
  /\ pc = "cleanline"
  /\ ~idem
  /\ lline' = cur
  /\ cur' = CleanTable[cur]
  /\ idem' = (cur' = cur)
  /\ UNCHANGED <<pc, routingVars, mailVars, scanVars, mimeVars>>

\* line 463
CleanReturn ==
  /\ pc = "cleanline"
  /\ idem
  /\ pc' = "cleanline returned"
  /\ UNCHANGED <<routingVars, mailVars, scanVars, cleanVars, mimeVars>>

NextCleanup == NoparTurn \/ NoparReturn \/ CleanTurn \/ CleanReturn

\* a function that is called runs its loop on
SpecCleanup == InitCleanup /\ [][NextCleanup]_vars /\ WF_vars(NextCleanup)

(***************************************************************************)
(* The parts of a message: get_raw_body_text (lines 95-131),               *)
(* traverse_multipart (lines 189-262), and the bodies and attachments of   *)
(* the report of parse_email (lines 822-1003).  A part is what             *)
(* email.message.Message gives for it: items(), get_content_maintype(),    *)
(* get_filename(''), and get_payload(decode=True) for a part with no       *)
(* Content-Transfer-Encoding and no charset.                               *)
(***************************************************************************)
\* the header name Content-Type
HdrContentType ==
  <<"C", "o", "n", "t", "e", "n", "t", "-", "T", "y", "p", "e">>

\* the header name Content-Disposition
HdrContentDisposition ==
  <<"C", "o", "n", "t", "e", "n", "t", "-", "D", "i", "s", "p", "o", "s", "i",
  "t", "i", "o", "n">>

\* the header name Subject
HdrSubject ==
  <<"S", "u", "b", "j", "e", "c", "t">>

\* the header value text/plain
TextPlainValue ==
  <<"t", "e", "x", "t", "/", "p", "l", "a", "i", "n">>

\* the header value text/html
TextHtmlValue ==
  <<"t", "e", "x", "t", "/", "h", "t", "m", "l">>

\* the header value application/pdf
PdfValue ==
  <<"a", "p", "p", "l", "i", "c", "a", "t", "i", "o", "n", "/", "p", "d",
  "f">>

\* the header value application/octet-stream
OctetValue ==
  <<"a", "p", "p", "l", "i", "c", "a", "t", "i", "o", "n", "/", "o", "c", "t",
  "e", "t", "-", "s", "t", "r", "e", "a", "m">>

\* the header value application/octet-stream; name="p.HTM"
OctetNamedValue ==
  <<"a", "p", "p", "l", "i", "c", "a", "t", "i", "o", "n", "/", "o", "c", "t",
  "e", "t", "-", "s", "t", "r", "e", "a", "m", ";", " ", "n", "a", "m", "e",
  "=", "\"", "p", ".", "H", "T", "M", "\"">>

\* the header value image/png
PngValue ==
  <<"i", "m", "a", "g", "e", "/", "p", "n", "g">>

\* the header value attachment; filename="report.pdf"
PdfDisposition ==
  <<"a", "t", "t", "a", "c", "h", "m", "e", "n", "t", ";", " ", "f", "i", "l",
  "e", "n", "a", "m", "e", "=", "\"", "r", "e", "p", "o", "r", "t", ".", "p",
  "d", "f", "\"">>

\* the header value attachment; filename="x.html"
HtmlDisposition ==
  <<"a", "t", "t", "a", "c", "h", "m", "e", "n", "t", ";", " ", "f", "i", "l",
  "e", "n", "a", "m", "e", "=", "\"", "x", ".", "h", "t", "m", "l", "\"">>

\* the header value attachment
BareDisposition ==
  <<"a", "t", "t", "a", "c", "h", "m", "e", "n", "t">>

\* the header value inline; filename="a.txt"
InlineDisposition ==
  <<"i", "n", "l", "i", "n", "e", ";", " ", "f", "i", "l", "e", "n", "a", "m",
  "e", "=", "\"", "a", ".", "t", "x", "t", "\"">>

\* the payload see http://a.bc/x u@a.bc 1.2.3.4
IndicatorPayload ==
  <<"s", "e", "e", " ", "h", "t", "t", "p", ":", "/", "/", "a", ".", "b", "c",
  "/", "x", " ", "u", "@", "a", ".", "b", "c", " ", "1", ".", "2", ".", "3",
  ".", "4">>

\* the payload hello
PlainPayload ==
  <<"h", "e", "l", "l", "o">>

\* the payload %PDF
FilePayload ==
  <<"%", "P", "D", "F">>

\* a part that is not multipart
Leaf(items, maintype, filename, payload) ==
  [multipart |-> FALSE, items |-> items, maintype |-> maintype,
   filename |-> filename, payload |-> payload]

\* a multipart part: is_multipart(), and get_payload() the list of its parts
Container(parts) == [multipart |-> TRUE, parts |-> parts]

\* the leaf parts: a text body with indicators, one without, a named and an
\* unnamed attachment, an image with no disposition, an HTML file sent as
\* attachment, a file named .HTM in its Content-Type, a text file sent inline
LeafParts ==
  {Leaf(<<<<HdrContentType, TextPlainValue>>>>, <<"t","e","x","t">>, <<>>,
        IndicatorPayload),
   Leaf(<<<<HdrContentType, TextHtmlValue>>>>, <<"t","e","x","t">>, <<>>,
        PlainPayload),
   Leaf(<<<<HdrContentType, PdfValue>>, <<HdrContentDisposition, PdfDisposition>>>>,
        <<"a","p","p","l","i","c","a","t","i","o","n">>,
        <<"r","e","p","o","r","t",".","p","d","f">>, FilePayload),
   Leaf(<<<<HdrContentType, OctetValue>>, <<HdrContentDisposition, BareDisposition>>>>,
        <<"a","p","p","l","i","c","a","t","i","o","n">>, <<>>, FilePayload),
   Leaf(<<<<HdrContentType, PngValue>>>>, <<"i","m","a","g","e">>, <<>>,
        FilePayload),
   Leaf(<<<<HdrContentType, TextHtmlValue>>, <<HdrContentDisposition, HtmlDisposition>>>>,
        <<"t","e","x","t">>, <<"x",".","h","t","m","l">>, IndicatorPayload),
   Leaf(<<<<HdrContentType, OctetNamedValue>>>>,
        <<"a","p","p","l","i","c","a","t","i","o","n">>,
        <<"p",".","H","T","M">>, PlainPayload),
   Leaf(<<<<HdrContentType, TextPlainValue>>, <<HdrContentDisposition, InlineDisposition>>>>,
        <<"t","e","x","t">>, <<"a",".","t","x","t">>, PlainPayload)}

\* the most parts of a multipart part
MaxParts == 2

\* the lists of one to MaxParts leaf parts
LeafLists == UNION {[1..n -> LeafParts] : n \in 1..MaxParts}

\* a message that is not multipart carries its other headers with those of
\* its content
Single(part) ==
  [part EXCEPT !.items = <<<<HdrSubject, PlainPayload>>>> \o part.items]

\* the messages: one part, a multipart of leaf parts, and a multipart of a
\* leaf part and a multipart of leaf parts
MimeMessages ==
  {Single(l) : l \in LeafParts}
  \cup {Container(ls) : ls \in LeafLists}
  \cup {Container(<<l, Container(ls)>>) : l \in LeafParts, ls \in LeafLists}

\* str.endswith
EndsWith(s, suffix) ==
  Len(s) >= Len(suffix) /\ Sub(s, Len(s) - Len(suffix), Len(s)) = suffix

\* name in msg: the names of the headers are matched in any case
InMsg(part, name) ==
  \E k \in 1..Len(part.items) : StrLower(part.items[k][1]) = name

\* msg.get(name, failobj)
MsgGet(part, name, failobj) ==
  IF InMsg(part, name)
  THEN part.items[Min({k \in 1..Len(part.items) : StrLower(part.items[k][1]) = name})][2]
  ELSE failobj

\* lines 114-118
IsBodyText(part) ==
  \/ /\ ~InMsg(part, StrLower(HdrContentDisposition))
     /\ part.maintype = <<"t","e","x","t">>
  \/ EndsWith(StrLower(part.filename), <<".","h","t","m","l">>)
  \/ EndsWith(StrLower(part.filename), <<".","h","t","m">>)

RECURSIVE get_raw_body_text(_), RawBodyOf(_, _)
\* lines 107-108: the body texts of the parts from the k-th on
RawBodyOf(parts, k) ==
  IF k > Len(parts) THEN <<>>
  ELSE get_raw_body_text(parts[k]) \o RawBodyOf(parts, k + 1)

\* lines 95-131: the tuples (encoding, raw_body_str, items) of the body
\* texts, in the order of the parts
get_raw_body_text(part) ==
  IF part.multipart THEN RawBodyOf(part.parts, 1)
  ELSE IF IsBodyText(part)
       THEN <<<<StrLower(MsgGet(part, <<"c","o","n","t","e","n","t","-","t","r","a","n","s","f","e","r","-","e","n","c","o","d","i","n","g">>, <<>>)),
                part.payload, part.items>>>>
       ELSE <<>>

\* str.rfind of one character
RFind(s, c) == Max({-1} \cup {k - 1 : k \in {j \in 1..Len(s) : s[j] = c}})

\* lines 134-149
get_file_extension(filename) ==
  StrLower(IF RFind(filename, ".") # -1
           THEN Sub(filename, RFind(filename, ".") + 1, Len(filename))
           ELSE <<>>)

\* a digest of hashlib, in hexadecimal: one value for each algorithm and
\* each text, and no text is its own digest
HexDigest(algo, data) == [algo |-> algo, of |-> data]

\* lines 152-172
get_file_hash(data) ==
  [md5 |-> HexDigest("md5", data), sha1 |-> HexDigest("sha1", data),
   sha256 |-> HexDigest("sha256", data), sha512 |-> HexDigest("sha512", data)]

\* lines 175-186
wrap_hash_sha256(string) == HexDigest("sha256", string)

\* the decimal digit of a number below 10
DigitOf(n) == <<"0","1","2","3","4","5","6","7","8","9">>[n + 1]

\* line 219: 'part-{0:03d}'.format(counter), for a counter below 1000
PartName(counter) ==
  <<"p","a","r","t","-">>
  \o <<DigitOf((counter \div 100) % 10), DigitOf((counter \div 10) % 10),
       DigitOf(counter % 10)>>

\* eml_parser.decode.decode_field on a name with no encoded word
decode_field(field) == field

RECURSIVE PartHeaders(_, _, _)
\* lines 249-256: the values of each header, under its name in lowercase
PartHeaders(items, k, ch) ==
  IF k > Len(items) THEN ch
  ELSE PartHeaders(items, k + 1,
         Put(ch, StrLower(items[k][1]),
             IF Has(ch, StrLower(items[k][1]))
             THEN Append(ch[StrLower(items[k][1])], items[k][2])
             ELSE <<items[k][2]>>))

\* lines 217-221
AttachmentName(part, counter) ==
  IF part.filename = <<>> THEN PartName(counter) ELSE decode_field(part.filename)

\* lines 226-258, libmagic not installed (lines 54-57): the entry of an
\* attachment
AttachmentOf(part, filename, include_attachment_data) ==
  [k \in {"filename", "size", "hash", "content_header"}
         \cup (IF get_file_extension(filename) # <<>> THEN {"extension"} ELSE {})
         \cup (IF include_attachment_data THEN {"raw"} ELSE {}) |->
     CASE k = "filename" -> filename
       [] k = "size" -> Len(part.payload)
       [] k = "extension" -> get_file_extension(filename)
       [] k = "hash" -> get_file_hash(part.payload)
       [] k = "raw" -> [base64 |-> part.payload]
       [] k = "content_header" -> PartHeaders(part.items, 1, EmptyDict)]

\* line 210
IsAttachment(part) ==
  \/ InMsg(part, StrLower(HdrContentDisposition))
  \/ part.maintype # <<"t","e","x","t">>

RECURSIVE traverse_multipart(_, _, _), TraverseOf(_, _, _, _)
\* lines 205-206: every part is traversed with the counter of the caller
TraverseOf(parts, k, counter, include_attachment_data) ==
  IF k > Len(parts) THEN <<>>
  ELSE traverse_multipart(parts[k], counter, include_attachment_data)
       \o TraverseOf(parts, k + 1, counter, include_attachment_data)

\* lines 189-262: the attachments in the order they are put in the dict,
\* each under a uuid1 of its own; the counter that line 260 adds to is the
\* one of the call on the leaf part
traverse_multipart(part, counter, include_attachment_data) ==
  IF part.multipart
  THEN TraverseOf(part.parts, 1, counter, include_attachment_data)
  ELSE IF IsAttachment(part)
       THEN <<AttachmentOf(part, AttachmentName(part, counter),
                           include_attachment_data)>>
       ELSE <<>>

\* the body of a part as the scans take it
BodyText(data) == [pre |-> 0, core |-> data, post |-> 0]

\* lines 847-887
BodyScan(text, whiteip) ==
  IF TextLen(text) < 4096 THEN Exhaustive(text, whiteip)
  ELSE Windowed(text, whiteip)

\* the payloads of the leaf parts
Payloads == {l.payload : l \in LeafParts}

\* lines 847-887 for every payload, with no address in whiteip
ScanTable == [d \in Payloads |-> BodyScan(BodyText(d), <<>>)] @@ <<>>

\* lines 890-901: the indicators that were observed, as they are
RawIndicators(obs) ==
  [k \in {x \in {"uri", "email", "domain", "ip"} : obs[x] # {}} |-> obs[k]]

\* lines 903-921: the digests of the indicators that were observed
HashedIndicators(obs) ==
  [k \in (IF obs.uri # {} THEN {"uri_hash"} ELSE {})
         \cup (IF obs.email # {} THEN {"email_hash"} ELSE {})
         \cup (IF obs.domain # {} THEN {"domain_hash"} ELSE {})
         \cup (IF obs.ip # {} THEN {"ip_hash"} ELSE {}) |->
     CASE k = "uri_hash" -> {wrap_hash_sha256(StrLower(x)) : x \in obs.uri}
       [] k = "email_hash" -> {wrap_hash_sha256(x) : x \in obs.email}
       [] k = "domain_hash" -> {wrap_hash_sha256(StrLower(x)) : x \in obs.domain}
       [] k = "ip_hash" -> {wrap_hash_sha256(x) : x \in obs.ip}]

\* the report of the indicators with line 890 taken as true
ReportIndicatorsRaw(include, obs) == RawIndicators(obs)

\* lines 889-921
ReportIndicators(include, obs) ==
  IF include THEN RawIndicators(obs) ELSE HashedIndicators(obs)

\* line 932 and line 940: the name of a header as the report has it
BodyKey(name) == Replace(StrLower(name), <<".">>, <<":">>)

RECURSIVE BodyHeaders(_, _, _, _)
\* lines 929-945: the values of each header under its name; of a message
\* with one body text, the headers named content... only
BodyHeaders(items, k, ch, multipart) ==
  IF k > Len(items) THEN ch
  ELSE BodyHeaders(items, k + 1,
         IF multipart \/ Sub(BodyKey(items[k][1]), 0, 7) = <<"c","o","n","t","e","n","t">>
         THEN Put(ch, BodyKey(items[k][1]),
                  IF Has(ch, BodyKey(items[k][1]))
                  THEN Append(ch[BodyKey(items[k][1])], items[k][2])
                  ELSE <<items[k][2]>>)
         ELSE ch,
         multipart)

\* line 956: header_val.split(';', 1)[0].strip()
ContentTypeOf(header_val) ==
  Strip(Sub(header_val, 0,
            IF Contains(header_val, <<";">>) THEN Find(header_val, <<";">>)
            ELSE Len(header_val)),
        Space)

\* lines 946-962: the entry of a body text, its indicators reported
BodieOf(text, ch, include, indicators) ==
  indicators
  @@ [content_header |-> ch]
  @@ (IF include THEN [content |-> text] ELSE EmptyDict)
  @@ (IF Has(ch, StrLower(HdrContentType))
      THEN [content_type |->
              ContentTypeOf(ch[StrLower(HdrContentType)][Len(ch[StrLower(HdrContentType)])])]
      ELSE EmptyDict)
  @@ [hash |-> HexDigest("sha256", text)]

\* lines 833-965 for one tuple of raw_body: the payload is decoded, scanned
\* and reported
Bodie(body_tup, multipart, include, obs) ==
  BodieOf(body_tup[2], BodyHeaders(body_tup[3], 1, EmptyDict, multipart),
          include, ReportIndicators(include, obs))

\* parse_email is called on a message, with or without include_raw_body and
\* with no pconf (lines 653-665)
InitMime ==
  /\ pc = "parse_email"
  /\ mime \in MimeMessages
  /\ include_raw_body \in BOOLEAN
  /\ raw_body = <<>>
  /\ bodys_struc = EmptyDict
  /\ bodys = <<>>
  /\ report_struc = EmptyDict
  /\ msg = <<>>
  /\ pconf = [whiteip |-> <<>>, whitefor |-> <<>>]
  /\ pybuild = "ValueError"
  /\ headers_struc = EmptyDict
  /\ found_smtpin = EmptyDict
  /\ idx = 0
  /\ IdleRouting
  /\ IdleBody
  /\ IdleQuad
  /\ IdleClean

\* lines 823-831
ParseTextBody ==
  /\ pc = "parse_email"
  /\ raw_body' = get_raw_body_text(mime)
  /\ bodys_struc' = IF include_raw_body THEN [raw_body |-> raw_body']
                    ELSE EmptyDict
  /\ bodys' = <<>>
  /\ pc' = "bodies"
  /\ UNCHANGED <<routingVars, mailVars, scanVars, cleanVars, mime,
                 include_raw_body, report_struc>>

\* lines 832-965: one turn of the loop over raw_body; the bodies are kept
\* in the order they are put in the dict, each under a uuid1 of its own
BodyTurn ==
  /\ pc = "bodies"
  /\ Len(bodys) < Len(raw_body)
  /\ bodys' = Append(bodys, Bodie(raw_body[Len(bodys) + 1], Len(raw_body) # 1,
                                   include_raw_body,
                                   ScanTable[raw_body[Len(bodys) + 1][2]]))
  /\ UNCHANGED <<pc, routingVars, mailVars, scanVars, cleanVars, mime,
                 include_raw_body, raw_body, bodys_struc, report_struc>>

\* the default of parse_email (line 634)
include_attachment_data == FALSE

\* lines 998 and 1003 after lines 987-993: the attachments, when there are
\* some, and the bodies
ReportOf(attachment, newbody) ==
  (IF attachment # <<>> THEN [attachment |-> attachment] ELSE EmptyDict)
  @@ [body |-> newbody]

\* lines 967 and 987-1003
ReportParts ==
  /\ pc = "bodies"
  /\ Len(bodys) = Len(raw_body)
  /\ bodys_struc' = bodys
  /\ report_struc' = ReportOf(traverse_multipart(mime, 0, include_attachment_data),
                              bodys)
  /\ pc' = "reported"
  /\ UNCHANGED <<routingVars, mailVars, scanVars, cleanVars, mime,
                 include_raw_body, raw_body, bodys>>

NextMime == ParseTextBody \/ BodyTurn \/ ReportParts

SpecMime == InitMime /\ [][NextMime]_vars

(***************************************************************************)
(* Claims about parserouting, stated over SpecRouting.                     *)
(***************************************************************************)
\* C1: parserouting is total: called on any line (the empty line, a line
\* with no from/by/with/for marker, a line with markers and no date clause)
\* it returns a record and never raises.
C1_ParseroutingTotal == pc # "raised"

\* whether the date clause of a line is a date parsedate_to_datetime reads
DateParses(l) ==
  parsedate_to_datetime(
    Replace(ExtractDate(Normalise(StrLower(l))), <<".">>, <<":">>)).ok

\* C2: every record parserouting returns, on every return path, holds a
\* date, the date is timezone-aware, and it is the epoch sentinel
\* 1970-01-01T00:00:00Z when the line has no date that can be parsed.
C2_DateOnEveryPath ==
  pc = "returned" =>
    /\ Has(ret.out, "date")
    /\ ret.out["date"].tz # <<>>
    /\ (~DateParses(line_in) => ret.out["date"] = default_date)

\* C3: every record parserouting returns holds a field among from, by,
\* with and for, or a non-empty warning; none is only src and date.
C3_FieldOrWarning ==
  pc = "returned" =>
    \/ \E k \in {"from", "by", "with", "for"} : Has(ret.out, k)
    \/ Has(ret.out, "warning") /\ ret.out["warning"] # <<>>

\* C4: for a line whose normalised form holds "received:" anywhere,
\* whatever is around it, parserouting returns exactly the record of src,
\* date and the merged-headers warning, with no from, by or for.
C4_MergedRecord ==
  /\ pc # "parserouting"
  /\ Contains(Normalise(StrLower(line_in)), <<"r","e","c","e","i","v","e","d",":">>)
  => /\ pc = "returned"
     /\ DOMAIN ret.out = {"src", "date", "warning"}
     /\ ret.out["src"] = line_in
     /\ ret.out["warning"] = <<"Merged Received headers">>

\* the domain, IPv4 and IPv6 tokens of a text
FieldTokens(text) ==
  ToSet(DomFindAll(<<" ">> \o text)) \cup ToSet(FindAll(ipv4_regex, text))
    \cup ToSet(FindAll(ipv6_regex, text))

\* the text of the field key that the from/by fixup works on: the captured
\* text, after the fixup of for
FieldText(line0, key) == FixupFor(Captured(line0)).out[key]

\* whether the field key of the returned record is the set of the tokens of
\* its captured text, and is absent when there is none
TokensOrAbsent(key) ==
  IF /\ Has(FixupFor(Captured(line_in)).out, key)
     /\ FieldTokens(FieldText(line_in, key)) # {}
  THEN /\ Has(ret.out, key)
       /\ ret.out[key] = FieldTokens(FieldText(line_in, key))
  ELSE ~Has(ret.out, key)

\* "from mail.example.com (mail.example.com [192.168.1.1]) by
\* mx.example.org; Mon, 1 Jan 2024 00:00:00 +0000"
ExampleLine == ExtraLines[6]

\* C16: in a returned hop record from and by are each the set of all the
\* domain, IPv4 and IPv6 tokens of the captured field text, private
\* addresses included, and the field is absent whenever that set is empty;
\* the example line gives mail.example.com (and 192.168.1.1) in from,
\* mx.example.org in by and the date 2024-01-01T00:00:00Z.
C16_DomIpFields ==
  (pc = "returned" /\ ~Has(ret.out, "warning")) =>
    /\ TokensOrAbsent("from")
    /\ TokensOrAbsent("by")
    /\ line_in = ExampleLine =>
         /\ ret.out["from"] =
              {<<"m","a","i","l",".","e","x","a","m","p","l","e",".","c","o","m">>,
               <<"1","9","2",".","1","6","8",".","1",".","1">>}
         /\ ret.out["by"] = {<<"m","x",".","e","x","a","m","p","l","e",".","o","r","g">>}
         /\ ret.out["date"] = [t |-> <<2024, 1, 1, 0, 0, 0>>, tz |-> <<0>>]

\* the offset in the line where field k of the positional scan ends: the
\* next selected marker, the date clause after the last one, or the end of
\* the line
SliceEnd(line, marks, d, k) ==
  IF k < Len(marks) THEN Find(line, marks[k + 1][2])
  ELSE IF d # <<>> /\ Contains(line, d) THEN Find(line, d)
  ELSE Len(line)

\* field k of the positional scan: the text between the first place of
\* marker k in the line and the end of the field, cleaned
SliceOf(line, marks, d, k) ==
  cleanline(Sub(line, Find(line, marks[k][2]) + Len(marks[k][2]),
                SliceEnd(line, marks, d, k)))

\* C17: the fields that the pattern built from the markers captures are
\* those of a positional scan: each captured field is the text of the line
\* between the first place of its marker and the first place of the next
\* selected marker (the date clause or the end of the line after the
\* last), also for a line with a marker word written twice or written in a
\* parenthesis.
C17_PositionalScan ==
  (pc = "returned" /\ ~Has(ret.out, "warning")) =>
    \A k \in 1..Len(Selected(line_in)) :
      /\ Has(Captured(line_in), BorderKey(Selected(line_in)[k][2]))
      /\ Captured(line_in)[BorderKey(Selected(line_in)[k][2])]
           = SliceOf(StrLower(line_in), Selected(line_in),
                     ExtractDate(Normalise(StrLower(line_in))), k)

\* the captured for text of the line
ForText == Captured(line_in)["for"]

\* the for text that is kept: what comes before the first " from "
KeptFor == IF Contains(ForText, <<" ","f","r","o","m"," ">>)
           THEN Split(ForText, <<" ","f","r","o","m"," ">>)[1] ELSE ForText

\* the from text after the fixup of for: what comes after " from " in the
\* for text is added to the captured from text, or to nothing
FromAfterFor ==
  IF Contains(ForText, <<" ","f","r","o","m"," ">>)
  THEN (IF Has(Captured(line_in), "from") THEN Captured(line_in)["from"] ELSE <<>>)
       \o <<" ">> \o Join(<<" ">>, Tail(Split(ForText, <<" ","f","r","o","m"," ">>)))
  ELSE IF Has(Captured(line_in), "from") THEN Captured(line_in)["from"]
  ELSE <<>>

\* C19: for a line with a captured for text (whose date is read), the
\* record is returned with the fixup done: a for text with " from " in it
\* is cut there and the rest is added to the from text, also when no from
\* text was captured; otherwise the from text is as captured; for is the
\* set of the addresses of the kept text, and is absent when there is none.
C19_ForFixup ==
  (/\ pc # "parserouting"
   /\ ret.exc # "InvalidDate"
   /\ ~Has(ret.out, "warning")
   /\ Has(Captured(line_in), "for")
   /\ ForText # <<>>) =>
    /\ pc = "returned"
    /\ IF FindAll(email_regex, KeptFor) = <<>> THEN ~Has(ret.out, "for")
       ELSE /\ Has(ret.out, "for")
            /\ ret.out["for"] = ToSet(FindAll(email_regex, KeptFor))
    /\ IF FieldTokens(FromAfterFor) = {}
       THEN ~Has(ret.out, "from") \/ FromAfterFor = <<>>
       ELSE /\ Has(ret.out, "from")
            /\ ret.out["from"] = FieldTokens(FromAfterFor)

(***************************************************************************)
(* Claims about the Received loop of parse_email, stated over Spec.        *)
(***************************************************************************)
\* the list received of the report
Received == IF Has(headers_struc, "received") THEN headers_struc["received"] ELSE <<>>

\* C5: a failure on one Received header (an exception of parserouting)
\* aborts neither the other headers nor the message: parse_email never
\* raises, and when it returns, every header parserouting returns a record
\* for has its entry in received.
C5_HeaderFailureNotFatal ==
  /\ pc # "raised"
  /\ pc = "done" =>
       \A k \in 1..Len(msg) :
         ScanOf(msg[k]).current_line.exc = "none" =>
           \E j \in 1..Len(Received) : Received[j]["src"] = ScanOf(msg[k]).l

\* the number a string of digits stands for, -1 for any other string
Num(t) == IF IsDigits(t) THEN ToInt(t) ELSE -1

\* whether the dotted quad of the numbers o is in 10/8, 172.16/12,
\* 192.168/16 or 127/8
PrivateQuad(o) ==
  /\ Len(o) = 4
  /\ \/ o[1] = 10
     \/ o[1] = 172 /\ o[2] \in 16..31
     \/ o[1] = 192 /\ o[2] = 168
     \/ o[1] = 127

\* whether the text ip writes an address of the private or loopback
\* ranges: a dotted quad of these ranges, or the IPv6 address ::1 in any of
\* its forms (groups of zeros, written or elided, and a last group of 1)
InPrivateRange(ip) ==
  IF Contains(ip, <<":">>)
  THEN LStrip(ip, {"0", ":"}) = <<"1">>
  ELSE PrivateQuad(Tup([k \in 1..Len(Split(ip, <<".">>)) |-> Num(Split(ip, <<".">>)[k])]))

\* the aggregate received_ip of the report: a list while the headers are
\* gone through, a set at the end, absent when empty
ReceivedIp ==
  IF ~Has(headers_struc, "received_ip") THEN {}
  ELSE IF pc = "done" THEN headers_struc["received_ip"]
  ELSE ToSet(headers_struc["received_ip"])

\* C9: after any sequence of Received headers, received_ip holds no address
\* of the private and loopback ranges (10/8, 172.16/12, 192.168/16, 127/8,
\* ::1) and no address of the caller's whitelist whiteip.
C9_NoPrivateNoWhitelisted ==
  \A ip \in ReceivedIp :
    /\ ~InPrivateRange(ip)
    /\ Has(pconf, "whiteip") => ip \notin ToSet(pconf["whiteip"])

\* C10: when all hops are gone through, received_foremail holds no address
\* of the caller's whitelist whitefor, also when the for set of a hop holds
\* a whitelisted address and another one.
C10_ForemailFiltered ==
  (pc = "done" /\ Has(headers_struc, "received_foremail")) =>
    headers_struc["received_foremail"] \cap ToSet(pconf["whitefor"]) = {}

\* the gateway names of the caller, in lowercase
Gateways ==
  IF Has(pconf, "byhostentry")
  THEN {StrLower(pconf["byhostentry"][k]) : k \in 1..Len(pconf["byhostentry"])}
  ELSE {}

\* the gateway names that a by token of the hop holds
GatewayHits(rec) ==
  IF Has(rec, "by") THEN {g \in Gateways : \E tok \in rec["by"] : Contains(tok, g)}
  ELSE {}

\* the warnings of a hop record
HopWarnings(rec) == IF Has(rec, "warning") THEN rec["warning"] ELSE <<>>

\* whether hop j of the report carries a warning that parserouting did not
\* give it: the duplicate-entrypoint warning
Flagged(j) ==
  Len(HopWarnings(Received[j]))
    > Len(HopWarnings(ScanOf(msg[j]).current_line.out))

\* C14: a hop is flagged with the duplicate-entrypoint warning if and only
\* if a gateway name that one of its by tokens holds was already held by a
\* by token of an earlier hop of the message; the first hop of a gateway
\* name is never flagged, also when several of its by tokens hold the name.
C14_FlaggedIffEarlierMatch ==
  \A j \in 1..Len(Received) :
    Flagged(j) <=>
      \E i \in 1..(j - 1) : GatewayHits(Received[i]) \cap GatewayHits(Received[j]) # {}

\* the hops of the report whose by set holds a gateway name
MatchingHops == {j \in 1..Len(Received) : GatewayHits(Received[j]) # {}}

\* the from field of a hop record, as the record's get gives it
FromOf(rec) == IF Has(rec, "from") THEN rec["from"] ELSE None

\* C15: when the Received headers are gone through, received_src is the
\* from set of the last hop whose by set holds a gateway name (compared
\* without case); it is absent when no hop holds one.
C15_ReceivedSrcLastMatch ==
  pc = "done" =>
    IF MatchingHops = {} THEN ~Has(headers_struc, "received_src")
    ELSE /\ Has(headers_struc, "received_src")
         /\ headers_struc["received_src"] = FromOf(Received[Max(MatchingHops)])

\* C15 happens: two hops hold a gateway name that the caller wrote with a
\* capital, their from sets differ, and received_src is the one of the
\* later hop
C15_Witness ==
  /\ pc = "done"
  /\ Has(pconf, "byhostentry")
  /\ \E k \in 1..Len(pconf["byhostentry"]) :
       pconf["byhostentry"][k] # StrLower(pconf["byhostentry"][k])
  /\ \E i \in MatchingHops :
       /\ i < Max(MatchingHops)
       /\ Has(Received[i], "from")
       /\ Has(Received[Max(MatchingHops)], "from")
       /\ Received[i]["from"] # Received[Max(MatchingHops)]["from"]
       /\ headers_struc["received_src"] = Received[Max(MatchingHops)]["from"]

\* whether every hop of the report is the record parserouting returned
HopsAsReturned ==
  \A j \in 1..Len(Received) : Received[j] = ScanOf(msg[j]).current_line.out

\* C20: parse_email changes nothing of what it is given: the pconf of the
\* caller (the dict parse_email works on, unless the caller gave none or an
\* empty one) keeps its keys and values through every step, and every hop
\* record of the report stays as parserouting returned it.
C20_PconfAndHopsUntouched ==
  [][/\ DOMAIN pconf # {} => pconf' = pconf
     /\ HopsAsReturned']_vars

\* the anomaly tags of a hop (lines 524, 556, 752 and 754)
WarningTags ==
  {"Merged Received headers", "Nothing Parsable", "Duplicate SMTP by entrypoint"}

\* whether an element of a list of warnings is an anomaly tag, a string: a
\* list of one tag is written otherwise
IsTag(w) == ToString(w) \in {ToString(tag) : tag \in WarningTags}

\* C22: in every report the warnings of every hop of received are a flat
\* list of anomaly tags, each element a string, whatever the Received
\* headers and the gateway names, also for a hop on which the
\* duplicate-entrypoint condition holds more than once.
C22_WarningsFlat ==
  pc = "done" =>
    \A j \in 1..Len(Received) :
      \A k \in 1..Len(HopWarnings(Received[j])) :
        IsTag(HopWarnings(Received[j])[k])

(***************************************************************************)
(* Claims about the scan of a body text, stated over SpecBody.             *)
(***************************************************************************)
\* C6: for the same body text, the exhaustive scan of the whole text and
\* the windowed scan at the anchors give the same sets of URLs, e-mail
\* addresses, domains and IP addresses, also for a token at the very start
\* of the text and for an IPv4 address with an octet of three digits: what
\* the scan of a body observed is what either scan gives for it.
C6_ScansAgree ==
  pc = "scanned" =>
    /\ observed = Exhaustive(body, pconf["whiteip"])
    /\ observed = Windowed(body, pconf["whiteip"])

\* C7: the windowed scan is chosen exactly when the body is longer than
\* 4096 characters; a body of 4096 characters or less is scanned as a
\* whole.
C7_WindowedAbove4096 ==
  /\ pc = "windowed" => TextLen(body) > 4096
  /\ pc = "exhaustive" => TextLen(body) <= 4096

\* the anchor of each pattern of the windowed scan, and the margins of its
\* window to the left and to the right of the anchor
Windows ==
  {[anchor |-> <<":", "/", "/">>, left |-> 16, right |-> 4096],
   [anchor |-> <<"@">>, left |-> 64, right |-> 255],
   [anchor |-> <<".">>, left |-> 253, right |-> 1004],
   [anchor |-> <<".">>, left |-> 11, right |-> 3],
   [anchor |-> <<":">>, left |-> 4, right |-> 35]}

\* the characters max(0, p - left) .. min(n, p + right) - 1 of a text of n
\* characters
Clamped(text, p, w) ==
  Cut(text, Max({0, p - w.left}), Min({TextLen(text), p + w.right}))

\* C21: on the windowed path, the slice that is scanned for an anchor at
\* position p of a body of n >= 4096 characters is made of the characters
\* max(0, p - L) .. min(n, p + R) - 1, for each pattern and its window
\* [-L, +R]; the slice holds the anchor, also when p < L.
C21_WindowAroundAnchor ==
  (pc = "scanned" /\ TextLen(body) >= 4096) =>
    \A w \in Windows : \A p \in findall(w.anchor, body) :
      Slice(body, p - w.left, p + w.right) = Clamped(body, p, w)

(***************************************************************************)
(* Claim about ipv4_regex.findall, stated over SpecQuad.                   *)
(***************************************************************************)
\* whether every octet of the quad is in 0..255
OctetsValid(q) == \A k \in 1..4 : ToInt(q.octets[k]) \in 0..255

\* C8: ipv4_regex.findall over a text reports a dotted quad of the text if
\* and only if each of its four octets is in 0..255: the quad itself when
\* they are, and nothing when one is not (for 256.1.1.1 no address, not
\* even the shortened 56.1.1.1).
C8_QuadIffOctetsValid ==
  pc = "found" =>
    matched = IF OctetsValid(quad) THEN <<QuadToken(quad)>> ELSE <<>>

(***************************************************************************)
(* Claim about noparenthesis and cleanline, stated over SpecCleanup.       *)
(***************************************************************************)
\* whether the text holds an opening and a closing parenthesis with no
\* parenthesis between them
HasInnerParens(s) ==
  \E i \in 1..Len(s) : \E j \in (i + 1)..Len(s) :
    /\ s[i] = "(" /\ s[j] = ")"
    /\ \A k \in (i + 1)..(j - 1) : s[k] \notin {"(", ")"}

\* whether the text starts or ends with a space or a semicolon
HasEdge(s) == s # <<>> /\ (s[1] \in {" ", ";"} \/ s[Len(s)] \in {" ", ";"})

\* what the two functions return: a text with nothing left to remove, that
\* the function gives back as it is
CleanupFixedPoint ==
  /\ pc = "noparenthesis returned" =>
       ~HasInnerParens(cur) /\ noparenthesis(cur) = cur
  /\ pc = "cleanline returned" =>
       ~HasEdge(cur) /\ cleanline(cur) = cur

\* a turn of noparenthesis that is not the last one shortens the text
NoparShortens ==
  (pc = "noparenthesis" /\ pc' = pc /\ ~idem') => Len(cur') < Len(cur)

\* C18: noparenthesis and cleanline halt on every argument, every turn of
\* noparenthesis but the last shortens the text, and what they return is a
\* fixed point: no pair of parentheses without a parenthesis inside is
\* left by noparenthesis, no space or semicolon at either end by
\* cleanline, and each function gives its own result back unchanged.
C18_CleanupsHaltOnFixedPoint ==
  /\ []CleanupFixedPoint
  /\ [][NoparShortens]_vars
  /\ <>(pc \in {"noparenthesis returned", "cleanline returned"})

\* C18 happens: noparenthesis has returned from nested parentheses, after
\* more than one turn that removed something; or cleanline has returned
\* from a line with both a semicolon and a space at its ends
C18_Witness ==
  \/ /\ pc = "noparenthesis returned"
     /\ line_in = <<"a", "(", "(", "a", ")", ")">>
     /\ cur = <<"a">>
  \/ /\ pc = "cleanline returned"
     /\ line_in = <<" ", ";", "a", " ", ";", " ">>
     /\ cur = <<"a">>

(***************************************************************************)
(* Claims about the parts of a message, stated over SpecMime.              *)
(***************************************************************************)
RECURSIVE LeavesOf(_), LeavesFrom(_, _)
\* the leaf parts of the parts from the k-th on
LeavesFrom(parts, k) ==
  IF k > Len(parts) THEN <<>>
  ELSE LeavesOf(parts[k]) \o LeavesFrom(parts, k + 1)

\* the leaf parts of a message, depth first and from left to right
LeavesOf(part) ==
  IF part.multipart THEN LeavesFrom(part.parts, 1) ELSE <<part>>

\* a leaf part that the rule of the body texts leaves out
NotBodyText(part) == ~IsBodyText(part)

\* the headers of the parts that are reported as body texts
BodyTextItems == Tup([k \in 1..Len(raw_body) |-> raw_body[k][3]])

\* the attachments of the report
Attachments ==
  IF Has(report_struc, "attachment") THEN report_struc["attachment"] ELSE <<>>

\* the headers of the parts that are reported as attachments
AttachmentHeaders ==
  Tup([k \in 1..Len(Attachments) |-> Attachments[k]["content_header"]])

\* the headers of some leaf parts, as get_raw_body_text keeps them
ItemsOf(parts) == Tup([k \in 1..Len(parts) |-> parts[k].items])

\* the headers of some leaf parts, as traverse_multipart keeps them
HeadersOf(parts) ==
  Tup([k \in 1..Len(parts) |-> PartHeaders(parts[k].items, 1, EmptyDict)])

\* C11: in the report of a message every leaf part is a body text or an
\* attachment and never both: the body texts are the parts with no
\* content-disposition and maintype text, and the parts with a filename in
\* .htm or .html; the attachments are all the other parts and only them.
C11_BodyTextOrAttachment ==
  pc = "reported" =>
    /\ BodyTextItems = ItemsOf(SelectSeq(LeavesOf(mime), IsBodyText))
    /\ AttachmentHeaders = HeadersOf(SelectSeq(LeavesOf(mime), NotBodyText))

\* the leaf parts that are reported as attachments, in the order of the walk
Attached == SelectSeq(LeavesOf(mime), IsAttachment)

\* C12: the counter goes through the whole walk of the parts: an attachment
\* with no filename of its own is named part-NNN with NNN the number of
\* attachments met before it, depth first and from left to right, so that
\* no two attachments of a message get the same synthetic name.
C12_CounterThreaded ==
  pc = "reported" =>
    \A j \in 1..Len(Attachments) :
      Attached[j].filename = <<>> => Attachments[j]["filename"] = PartName(j - 1)

\* the keys of the indicators as they are, and of their digests
RawKeys == {"uri", "email", "domain", "ip"}
HashKeys == {"uri_hash", "email_hash", "domain_hash", "ip_hash"}

\* the key of the digests of an indicator
HashKeyOf(k) ==
  CASE k = "uri" -> "uri_hash" [] k = "email" -> "email_hash"
    [] k = "domain" -> "domain_hash" [] k = "ip" -> "ip_hash"

\* the k-th body of the report holds the indicators of its text as they are,
\* with the text, and no digest of an indicator
BodyRaw(k) ==
  /\ DOMAIN report_struc["body"][k] \cap HashKeys = {}
  /\ report_struc["body"][k]["content"] = raw_body[k][2]
  /\ \A x \in RawKeys :
       IF ScanTable[raw_body[k][2]][x] = {}
       THEN ~Has(report_struc["body"][k], x)
       ELSE /\ Has(report_struc["body"][k], x)
            /\ report_struc["body"][k][x] = ScanTable[raw_body[k][2]][x]

\* the k-th body of the report holds no indicator and no text, but the
\* SHA-256 digests of the indicators of its text and of the text
BodyHashed(k) ==
  /\ DOMAIN report_struc["body"][k] \cap (RawKeys \cup {"content"}) = {}
  /\ DOMAIN report_struc["body"][k]
       \subseteq HashKeys \cup {"hash", "content_header", "content_type"}
  /\ report_struc["body"][k]["hash"] = HexDigest("sha256", raw_body[k][2])
  /\ \A x \in RawKeys :
       IF ScanTable[raw_body[k][2]][x] = {}
       THEN ~Has(report_struc["body"][k], HashKeyOf(x))
       ELSE /\ Has(report_struc["body"][k], HashKeyOf(x))
            /\ report_struc["body"][k][HashKeyOf(x)]
                 = {HexDigest("sha256", StrLower(v)) :
                      v \in ScanTable[raw_body[k][2]][x]}

\* C13: without include_raw_body the bodies of the report hold no uri,
\* email, domain or ip, no content, and the report no raw_body: only the
\* SHA-256 digests of the indicators and of the body are kept; with
\* include_raw_body the indicators are kept as they are, and no digest of
\* an indicator.
C13_RawOrHashed ==
  pc = "reported" =>
    /\ Len(report_struc["body"]) = Len(raw_body)
    /\ \A k \in 1..Len(raw_body) :
         IF include_raw_body THEN BodyRaw(k) ELSE BodyHashed(k)
    /\ ~include_raw_body => ~Has(report_struc, "raw_body")

\* C13 happens: a report made without include_raw_body of a message with a
\* body text that holds a URL, an address, a domain and an IP address, and
\* one that holds none
C13_Witness ==
  /\ pc = "reported"
  /\ ~include_raw_body
  /\ \E k \in 1..Len(raw_body) : \A x \in RawKeys : ScanTable[raw_body[k][2]][x] # {}
  /\ \E k \in 1..Len(raw_body) : \A x \in RawKeys : ScanTable[raw_body[k][2]][x] = {}

=============================================================================
